---------------------------- MODULE Spec2Model ----------------------------
(***************************************************************************)
(* Model of the azalea client connection engine.                           *)
(*                                                                         *)
(* Part 1: Client::handshake (azalea-client/src/client.rs), the login      *)
(* phase of a join: the intention and hello packets, the login loop with   *)
(* its select between the socket and the ECS packet queue, the encryption  *)
(* request with the session-server retry, compression, cookies, disconnect *)
(* and the switch to the configuration state.                              *)
(*                                                                         *)
(* One action is one stretch of handshake between two suspension points    *)
(* (an await): a packet write, a packet read, an authenticate call, a      *)
(* refresh call.  Every await that ends in `?` can fail and return early.  *)
(***************************************************************************)
EXTENDS Integers, Sequences, FiniteSets, TLC

(***************************************************************************)
(* Bounds of the model.                                                    *)
(***************************************************************************)
\* inbound login packets the server sends before the model stops reading
MaxRead == 3
\* packets plugins put on the LoginSendPacketQueue during one handshake
MaxQueued == 1

(***************************************************************************)
(* Option<T>: None is the empty sequence, Some(x) the one-element one.     *)
(***************************************************************************)
None == <<>>
Some(x) == <<x>>

Last(s) == s[Len(s)]

(***************************************************************************)
(* Inputs.                                                                 *)
(***************************************************************************)
\* Account: offline (no uuid, no access token) or online (both present)
Accounts ==
    { [username |-> "bot", uuid |-> None, access_token |-> None],
      [username |-> "bot", uuid |-> Some("uuid"), access_token |-> Some(0)] }

Profiles == {"profileA", "profileB"}
Reasons == {"banned", "full"}
CookieKeys == {"k1", "k2"}
Thresholds == {-1, 256}

\* ClientSessionServerError kinds: the two the code matches on, and any other
SessionServerErrors == {"InvalidSession", "ForbiddenOperation", "Other"}

\* the clientbound login packets a server can send (ClientboundLoginPacket)
\* Hello carries whether azalea_crypto::encrypt accepts its public key
ClientboundLoginPackets ==
    { [type |-> "Hello", encrypt_ok |-> b] : b \in BOOLEAN }
    \cup { [type |-> "LoginCompression", compression_threshold |-> t] : t \in Thresholds }
    \cup { [type |-> "LoginFinished", game_profile |-> g] : g \in Profiles }
    \cup { [type |-> "LoginDisconnect", reason |-> r] : r \in Reasons }
    \cup { [type |-> "CustomQuery"] }
    \cup { [type |-> "CookieRequest", key |-> k] : k \in CookieKeys }

NoPacket == [type |-> "none"]

VARIABLES
    account,        \* the Account handshake was called with (token refreshed in place)
    pc,             \* where handshake is suspended
    state,          \* ConnectionProtocol of conn: Handshake, Login, Configuration
    written,        \* packets written to the socket, each with the write half's
                    \* cipher and the protocol state at the time of the write
    readLog,        \* packets read from the socket, each with the read half's cipher
                    \* and the number of packets written before the read
    curPacket,      \* the packet the loop is handling
    readCipher,     \* Option: key of the read half (dec_cipher)
    writeCipher,    \* Option: key of the write half (enc_cipher)
    readThreshold,  \* Option: compression threshold of the read half
    writeThreshold, \* Option: compression threshold of the write half
    secret,         \* e.secret_key of the encryption request being handled
    attempts,       \* the `attempts` local of the authenticate loop
    authLog,        \* for the encryption request being handled: the results of
                    \* the authenticate calls and the refresh calls, in order
    ecsQueue,       \* ecs_packets_rx: packets plugins queued, not yet written
    enqueued,       \* number of packets ever queued
    events,         \* LoginPacketEvents sent to the ECS
    markers,        \* components handshake put on the entity
    result          \* what handshake returned: kind "Pending" while running

handshakeVars ==
    << account, pc, state, written, readLog, curPacket, readCipher, writeCipher,
       readThreshold, writeThreshold, secret, attempts, authLog, ecsQueue,
       enqueued, events, markers, result >>

(***************************************************************************)
(* Part 2: the schedule runner (client.rs, start_ecs_runner,               *)
(* run_schedule_loop, tick_run_schedule_loop).  Time is in milliseconds.   *)
(***************************************************************************)
VARIABLES
    now,            \* the clock (Instant::now()), ms since the runner started
    deadline,       \* game_tick_interval: when its next tick is due
    tickTask,       \* tick_run_schedule_loop: "running" or "returned"
    chan,           \* the run-schedule channel, mpsc::channel(1): the signals
                    \* in it, each tagged with who sent it ("tick" / "forced")
    loopTask,       \* run_schedule_loop: "recv" (waiting in recv().await),
                    \* "run" (signal received, about to run the schedules)
    signal,         \* who sent the signal the loop is handling
    last_tick,      \* Option<Instant>: the last_tick local of run_schedule_loop
    firstTick,      \* Option: when the first GameTick ran
    gameTicks,      \* number of runs of the GameTick schedule
    lastRun,        \* what the last pass of the loop ran: the signal's sender,
                    \* the number of Update runs and of GameTick runs
    burst,          \* GameTick runs since the clock last moved
    disconnected    \* Client::disconnect was called

tickVars == << now, deadline, tickTask, chan, loopTask, signal, last_tick,
               firstTick, gameTicks, lastRun, burst, disconnected >>

(***************************************************************************)
(* Part 3: chunk batching (chunk_batching.rs).  Durations are in           *)
(* nanoseconds, as Duration holds them.                                    *)
(***************************************************************************)
VARIABLES
    chunkNow,       \* Instant::now(), in nanoseconds
    chunkInfo,      \* the ChunkBatchInfo component of the entity that has one
    offBatches,     \* system runs so far that changed the aggregate
    lastEvents,     \* the ChunkBatchFinishedEvents read by the last run of
                    \* handle_chunk_batch_finished_event
    lastElapsed,    \* start_time.elapsed() during that run
    beforeEvents,   \* chunkInfo before that run
    afterEvents,    \* chunkInfo after that run
    sendPackets,    \* the SendPacketEvents written by that run
    accumulator,    \* Option<ChunkReceiveSpeedAccumulator>
    capacity,       \* the capacity it was made with
    samples         \* the (batch_size, batch_duration) pairs accumulated, in order

chunkVars ==
    << chunkNow, chunkInfo, offBatches, lastEvents, lastElapsed, beforeEvents,
       afterEvents, sendPackets >>
accVars == << accumulator, capacity, samples >>

(***************************************************************************)
(* Part 5: the command dispatcher (command_dispatcher.rs).                 *)
(***************************************************************************)
VARIABLES
    registered,     \* the nodes register() has added to the root
    command,        \* the input of the last execute(), a sequence of characters
    source,         \* its source
    parsed,         \* Option<ParseResults>: what parse() returned for it
    executed,       \* Option<Result<i32, CommandSyntaxError>> of that execute()
    again           \* the result of running the same execute() once more

dispatchVars == << registered, command, source, parsed, executed, again >>

(***************************************************************************)
(* Part 6: SerializableGameProfile into GameProfile (game_profile.rs).     *)
(***************************************************************************)
VARIABLES
    serialized,     \* Option<SerializableGameProfile>: the value converted
    converted       \* Option<GameProfile>: what GameProfile::from returned

profileVars == << serialized, converted >>

(***************************************************************************)
(* Part 7: Client::set_client_information (client.rs).                     *)
(***************************************************************************)
VARIABLES
    instanceName,       \* whether the entity has an InstanceName component
    clientInformation,  \* the entity's ClientInformation component
    sentPackets,        \* the write_packet calls made, with their caller
    infoCall            \* each set_client_information call: its position,
                        \* argument, whether InstanceName was there when it
                        \* stored, what logged_in() returned, its result

infoVars == << instanceName, clientInformation, sentPackets, infoCall >>

(***************************************************************************)
(* Part 8: the ECS mutex in Client::start_client and Client::handshake     *)
(* (client.rs).                                                            *)
(***************************************************************************)
VARIABLES
    joinPc,         \* the position of each start_client call
    ecs_lock,       \* Option<holder>: who holds the mutex of the ECS world
    joinCall,       \* each start_client call: the uuid of its account and
                    \* the entity it selected
    ecs             \* the ECS world: the EntityUuidIndex resource and the
                    \* components of each entity spawned

joinVars == << joinPc, ecs_lock, joinCall, ecs >>

(***************************************************************************)
(* Part 9: the read locks CommandDispatcher::parse_nodes takes on command   *)
(* nodes while other threads write to them (command_dispatcher.rs).        *)
(***************************************************************************)
VARIABLES
    parseAt,        \* what the parsing thread does next: which read() of
                    \* which node, with how many words of input left
    guards,         \* the read guards the parsing thread holds, oldest first
    writerBit,      \* per node, Option<writer>: the writer that holds the
                    \* lock or waits for its readers to leave
    writers         \* each writing thread: its position and its node

lockVars == << parseAt, guards, writerBit, writers >>

laterVars == << dispatchVars, profileVars, infoVars, joinVars, lockVars >>

vars == << handshakeVars, tickVars, chunkVars, accVars, laterVars >>

\* what each part of the model leaves alone
notHandshake == << tickVars, chunkVars, accVars, laterVars >>
notTick == << handshakeVars, chunkVars, accVars, laterVars >>
notChunk == << handshakeVars, tickVars, accVars, laterVars >>
notAccumulator == << handshakeVars, tickVars, chunkVars, laterVars >>
firstVars == << handshakeVars, tickVars, chunkVars, accVars >>
notDispatch == << firstVars, profileVars, infoVars, joinVars, lockVars >>
notProfile == << firstVars, dispatchVars, infoVars, joinVars, lockVars >>
notInfo == << firstVars, dispatchVars, profileVars, joinVars, lockVars >>
notJoin == << firstVars, dispatchVars, profileVars, infoVars, lockVars >>
notLock == << firstVars, dispatchVars, profileVars, infoVars, joinVars >>

connVars == << readCipher, writeCipher, readThreshold, writeThreshold >>
authVars == << secret, attempts, authLog >>

Pending == [kind |-> "Pending"]

(***************************************************************************)
(* JoinError: the conversions `?` and `.into()` apply (client.rs 124-142). *)
(***************************************************************************)
IoError == [kind |-> "Io"]
ReadPacketError == [kind |-> "ReadPacket"]
\* mutant: the session-server error converted to the Auth kind
SessionServerError_AsAuth(e) == [kind |-> "Auth"]

SessionServerError(e) == [kind |-> "SessionServer", err |-> e]
AuthError == [kind |-> "Auth"]
DisconnectError(reason) == [kind |-> "Disconnect", reason |-> reason]

(***************************************************************************)
(* The packets handshake writes.                                           *)
(***************************************************************************)
\* mutant: the intention packet asks for the Status state
ServerboundIntention_Status ==
    [type |-> "Intention", protocol_version |-> "PROTOCOL_VERSION",
     intention |-> "Status"]

ServerboundIntention ==
    [type |-> "Intention", protocol_version |-> "PROTOCOL_VERSION",
     intention |-> "Login"]

\* profile_id: account.uuid.unwrap_or_default()
ServerboundHello(acc) ==
    [type |-> "Hello", name |-> acc.username,
     profile_id |-> IF acc.uuid = None THEN "default" ELSE acc.uuid[1]]

ServerboundKey(s) == [type |-> "Key", secret |-> s]

ServerboundLoginAcknowledged == [type |-> "LoginAcknowledged"]

ServerboundCookieResponse(p) ==
    [type |-> "CookieResponse", key |-> p.key, payload |-> None]

\* a packet a plugin sent through SendLoginPacketEvent
QueuedPacket == [type |-> "CustomQueryAnswer"]

\* conn.write(packet): the packet goes out under the write half's cipher, in
\* the connection's current protocol state
Wrote(packet) ==
    Append(written, [packet |-> packet, cipher |-> writeCipher, state |-> state])

\* the components handshake inserts on the entity, and removes on success
LoginComponents == {"LoginSendPacketQueue", "IgnoreQueryIds", "InLoginState"}

\* return Err(e) / Ok: handshake is over
Return(r) ==
    /\ result' = r
    /\ pc' = "Done"

HandshakeInit ==
    /\ account \in Accounts
    /\ pc = "WriteIntention"
    /\ state = "Handshake"
    /\ written = <<>>
    /\ readLog = <<>>
    /\ curPacket = NoPacket
    /\ readCipher = None
    /\ writeCipher = None
    /\ readThreshold = None
    /\ writeThreshold = None
    /\ secret = 0
    /\ attempts = 0
    /\ authLog = <<>>
    /\ ecsQueue = <<>>
    /\ enqueued = 0
    /\ events = <<>>
    /\ markers = {}
    /\ result = Pending

\* start_ecs_runner: both tasks spawned, nothing sent yet; the interval's
\* first tick is due at once
NoRun == [signal |-> "none", update |-> 0, gameTick |-> 0]

TickInit ==
    /\ now = 0
    /\ deadline = 0
    /\ tickTask = "running"
    /\ chan = <<>>
    /\ loopTask = "recv"
    /\ signal = "none"
    /\ last_tick = None
    /\ firstTick = None
    /\ gameTicks = 0
    /\ lastRun = NoRun
    /\ burst = 0
    /\ disconnected = FALSE

\* impl Default for ChunkBatchInfo: start_time now, 2 ms per chunk, weight 1
ChunkBatchInfoDefault ==
    [start_time |-> 0, aggregated_duration_per_chunk |-> 2000000,
     old_samples_weight |-> 1]

ChunkInit ==
    /\ chunkNow = 0
    /\ chunkInfo = ChunkBatchInfoDefault
    /\ offBatches = 0
    /\ lastEvents = <<>>
    /\ lastElapsed = 0
    /\ beforeEvents = ChunkBatchInfoDefault
    /\ afterEvents = ChunkBatchInfoDefault
    /\ sendPackets = <<>>

\* no ChunkReceiveSpeedAccumulator made yet
AccumulatorInit ==
    /\ accumulator = None
    /\ capacity = None
    /\ samples = <<>>

\* CommandDispatcher::new(): a root without children; nothing executed yet
DispatchInit ==
    /\ registered = {}
    /\ command = <<>>
    /\ source = "op"
    /\ parsed = None
    /\ executed = None
    /\ again = None

\* nothing converted yet
ProfileInit ==
    /\ serialized = None
    /\ converted = None

\* ClientInformation::default(), the component start_client inserts
ClientInformationDefault == [view_distance |-> 8]

\* the callers of set_client_information: clones of one Client
Callers == {"first", "second"}

\* a joined client that has not received the login packet; no call made yet
InfoInit ==
    /\ instanceName = FALSE
    /\ clientInformation = ClientInformationDefault
    /\ sentPackets = << >>
    /\ infoCall = [c \in Callers |->
                     [pc |-> "idle", information |-> ClientInformationDefault,
                      stored_in_game |-> None, logged_in |-> None,
                      result |-> None]]

\* the start_client calls that share one ECS world
JoinTasks == {"join1", "join2"}

\* account.uuid_or_offline() of the accounts that join
AccountUuids == {"uuid1", "uuid2"}

\* no start_client call has taken the mutex yet; nobody holds it; the world
\* has no entity
JoinInit ==
    /\ joinPc = [t \in JoinTasks |-> "start"]
    /\ ecs_lock = None
    /\ joinCall = [t \in JoinTasks |-> [uuid |-> None, entity |-> None]]
    /\ ecs = [entity_uuid_index |-> [u \in AccountUuids |-> None],
              entities |-> << >>]

\* the words of input a parse starts with
MaxWords == 3

\* the threads that take the write lock of a node through a handle to it
Writers == {"writer1", "writer2"}

\* a command tree: a redirects to the root, b has the child c
Tree ==
    [root |-> [children |-> {"a", "b"}, redirect |-> None],
     a |-> [children |-> {}, redirect |-> Some("root")],
     b |-> [children |-> {"c"}, redirect |-> None],
     c |-> [children |-> {}, redirect |-> None]]

\* parse() is about to call parse_nodes(&self.root, ..); no lock is taken
LockInit ==
    /\ parseAt = [kind |-> "read_loop", node |-> "root", left |-> MaxWords]
    /\ guards = << >>
    /\ writerBit = [n \in DOMAIN Tree |-> None]
    /\ writers = [w \in Writers |-> [pc |-> "idle", node |-> ""]]

Init ==
    /\ LockInit
    /\ HandshakeInit
    /\ TickInit
    /\ ChunkInit
    /\ AccumulatorInit
    /\ DispatchInit
    /\ ProfileInit
    /\ InfoInit
    /\ JoinInit

(***************************************************************************)
(* conn.write(ServerboundIntention {..}).await?; conn.login(); insert the  *)
(* login components on the entity.                                         *)
(***************************************************************************)
WriteIntention ==
    /\ pc = "WriteIntention"
    /\ \E ok \in BOOLEAN :
        IF ok
        THEN /\ written' = Wrote(ServerboundIntention)
             /\ state' = "Login"
             /\ markers' = markers \cup LoginComponents
             /\ pc' = "WriteHello"
             /\ UNCHANGED result
        ELSE /\ Return(IoError)
             /\ UNCHANGED << written, state, markers >>
    /\ UNCHANGED << account, readLog, curPacket, connVars, authVars, ecsQueue,
                    enqueued, events >>
    /\ UNCHANGED notHandshake

(***************************************************************************)
(* conn.write(ServerboundHello {..}).await?                                *)
(***************************************************************************)
WriteHello ==
    /\ pc = "WriteHello"
    /\ \E ok \in BOOLEAN :
        IF ok
        THEN /\ written' = Wrote(ServerboundHello(account))
             /\ pc' = "Select"
             /\ UNCHANGED result
        ELSE /\ Return(IoError)
             /\ UNCHANGED written
    /\ UNCHANGED << account, state, readLog, curPacket, connVars, authVars,
                    ecsQueue, enqueued, events, markers >>
    /\ UNCHANGED notHandshake

(***************************************************************************)
(* A plugin sends a packet through the LoginSendPacketQueue component.     *)
(***************************************************************************)
EcsEnqueue ==
    /\ "LoginSendPacketQueue" \in markers
    /\ pc # "Done"
    /\ enqueued < MaxQueued
    /\ ecsQueue' = Append(ecsQueue, QueuedPacket)
    /\ enqueued' = enqueued + 1
    /\ UNCHANGED << account, pc, state, written, readLog, curPacket, connVars,
                    authVars, events, markers, result >>
    /\ UNCHANGED notHandshake

(***************************************************************************)
(* select!, branch `Some(packet) = ecs_packets_rx.recv()`: write the       *)
(* queued packet to the server and continue the loop.                      *)
(***************************************************************************)
SelectRecv ==
    /\ pc = "Select"
    /\ ecsQueue # <<>>
    /\ ecsQueue' = Tail(ecsQueue)
    /\ \E ok \in BOOLEAN :
        IF ok
        THEN /\ written' = Wrote(Head(ecsQueue))
             /\ UNCHANGED << pc, result >>
        ELSE /\ Return(IoError)
             /\ UNCHANGED written
    /\ UNCHANGED << account, state, readLog, curPacket, connVars, authVars,
                    enqueued, events, markers >>
    /\ UNCHANGED notHandshake

(***************************************************************************)
(* select!, branch `packet = conn.read() => packet?`, then the             *)
(* LoginPacketEvent sent to the ECS.                                       *)
(***************************************************************************)
SelectRead ==
    /\ pc = "Select"
    /\ Len(readLog) < MaxRead
    /\ \/ \E p \in ClientboundLoginPackets :
            /\ readLog' = Append(readLog, [packet |-> p, cipher |-> readCipher,
                                            after |-> Len(written)])
            /\ curPacket' = p
            /\ events' = Append(events, p)
            /\ pc' = "Match"
            /\ UNCHANGED result
       \/ /\ Return(ReadPacketError)
          /\ UNCHANGED << readLog, curPacket, events >>
    /\ UNCHANGED << account, state, written, connVars, authVars, ecsQueue,
                    enqueued, markers >>
    /\ UNCHANGED notHandshake

(***************************************************************************)
(* Connection::set_encryption_key and Connection::set_compression_threshold *)
(* act on both halves of the connection.                                   *)
(***************************************************************************)
SetEncryptionKey(key) ==
    /\ readCipher' = Some(key)
    /\ writeCipher' = Some(key)

SetCompressionThreshold(threshold) ==
    /\ readThreshold' = Some(threshold)
    /\ writeThreshold' = Some(threshold)

(***************************************************************************)
(* The encryption request, ClientboundLoginPacket::Hello(p).               *)
(***************************************************************************)
\* `if let Some(access_token) = &account.access_token`
NeedsAuthentication(acc) == acc.access_token # None

\* the body of `while let Err(e) = authenticate(..)`: what the loop does with
\* the error e of attempt number `att`
\* mutant: gives up after the third attempt instead of the second
AfterAuthError_ThreeAttempts(att, e) ==
    IF att >= 3
    THEN "return"
    ELSE IF e \in {"InvalidSession", "ForbiddenOperation"}
         THEN "refresh"
         ELSE "return"

\* mutant: refreshes and retries on every kind of error
AfterAuthError_RetryAny(att, e) ==
    IF att >= 2 THEN "return" ELSE "refresh"

AfterAuthError(att, e) ==
    IF att >= 2
    THEN "return"
    ELSE IF e \in {"InvalidSession", "ForbiddenOperation"}
         THEN "refresh"
         ELSE "return"

AuthenticateCall(token, res) == [op |-> "authenticate", token |-> token, res |-> res]
RefreshCall(ok) == [op |-> "refresh", ok |-> ok]

\* azalea_crypto::encrypt, then the branch on the access token
HandleHello ==
    /\ pc = "Match"
    /\ curPacket.type = "Hello"
    /\ IF ~curPacket.encrypt_ok
       THEN /\ pc' = "Select"
            /\ UNCHANGED authVars
       ELSE /\ secret' = secret + 1
            /\ authLog' = <<>>
            /\ IF NeedsAuthentication(account)
               THEN /\ attempts' = 1
                    /\ pc' = "Authenticate"
               ELSE /\ attempts' = 0
                    /\ pc' = "WriteKey"
    /\ UNCHANGED << account, state, written, readLog, curPacket, connVars,
                    ecsQueue, enqueued, events, markers, result >>
    /\ UNCHANGED notHandshake

\* conn.authenticate(&access_token, uuid, e.secret_key, &p).await
Authenticate ==
    /\ pc = "Authenticate"
    /\ \E res \in {"Ok"} \cup SessionServerErrors :
        /\ authLog' = Append(authLog, AuthenticateCall(account.access_token[1], res))
        /\ IF res = "Ok"
           THEN /\ pc' = "WriteKey"
                /\ UNCHANGED result
           ELSE IF AfterAuthError(attempts, res) = "refresh"
                THEN /\ pc' = "Refresh"
                     /\ UNCHANGED result
                ELSE Return(SessionServerError(res))
    /\ UNCHANGED << account, state, written, readLog, curPacket, connVars,
                    secret, attempts, ecsQueue, enqueued, events, markers >>
    /\ UNCHANGED notHandshake

\* account.refresh().await?; attempts += 1
Refresh ==
    /\ pc = "Refresh"
    /\ \E ok \in BOOLEAN :
        /\ authLog' = Append(authLog, RefreshCall(ok))
        /\ IF ok
           THEN /\ account' = [account EXCEPT !.access_token = Some(@[1] + 1)]
                /\ attempts' = attempts + 1
                /\ pc' = "Authenticate"
                /\ UNCHANGED result
           ELSE /\ Return(AuthError)
                /\ UNCHANGED << account, attempts >>
    /\ UNCHANGED << state, written, readLog, curPacket, connVars, secret,
                    ecsQueue, enqueued, events, markers >>
    /\ UNCHANGED notHandshake

\* mutant: ServerboundKey is written and the key is never installed
WriteKey_NoInstall ==
    /\ pc = "WriteKey"
    /\ \E ok \in BOOLEAN :
        IF ok
        THEN /\ written' = Wrote(ServerboundKey(secret))
             /\ pc' = "Select"
             /\ UNCHANGED result
        ELSE /\ Return(IoError)
             /\ UNCHANGED written
    /\ UNCHANGED << account, state, readLog, curPacket, connVars, authVars,
                    ecsQueue, enqueued, events, markers >>
    /\ UNCHANGED notHandshake

\* mutant: the key is installed before ServerboundKey is written, so the
\* packet goes out under the new cipher
WriteKey_InstallFirst ==
    /\ pc = "WriteKey"
    /\ \E ok \in BOOLEAN :
        IF ok
        THEN /\ SetEncryptionKey(secret)
             /\ written' = Append(written, [packet |-> ServerboundKey(secret),
                                             cipher |-> Some(secret), state |-> state])
             /\ pc' = "Select"
             /\ UNCHANGED result
        ELSE /\ Return(IoError)
             /\ UNCHANGED << written, readCipher, writeCipher >>
    /\ UNCHANGED << account, state, readLog, curPacket, readThreshold,
                    writeThreshold, authVars, ecsQueue, enqueued, events, markers >>
    /\ UNCHANGED notHandshake

\* conn.write(ServerboundKey {..}).await?; conn.set_encryption_key(e.secret_key)
WriteKey ==
    /\ pc = "WriteKey"
    /\ \E ok \in BOOLEAN :
        IF ok
        THEN /\ written' = Wrote(ServerboundKey(secret))
             /\ SetEncryptionKey(secret)
             /\ pc' = "Select"
             /\ UNCHANGED result
        ELSE /\ Return(IoError)
             /\ UNCHANGED << written, readCipher, writeCipher >>
    /\ UNCHANGED << account, state, readLog, curPacket, readThreshold,
                    writeThreshold, authVars, ecsQueue, enqueued, events, markers >>
    /\ UNCHANGED notHandshake

\* mutant: the compression request is only logged
HandleLoginCompression_Ignored ==
    /\ pc = "Match"
    /\ curPacket.type = "LoginCompression"
    /\ pc' = "Select"
    /\ UNCHANGED << account, state, written, readLog, curPacket, connVars,
                    authVars, ecsQueue, enqueued, events, markers, result >>
    /\ UNCHANGED notHandshake

(***************************************************************************)
(* ClientboundLoginPacket::LoginCompression(p)                             *)
(***************************************************************************)
HandleLoginCompression ==
    /\ pc = "Match"
    /\ curPacket.type = "LoginCompression"
    /\ SetCompressionThreshold(curPacket.compression_threshold)
    /\ pc' = "Select"
    /\ UNCHANGED << account, state, written, readLog, curPacket, readCipher,
                    writeCipher, authVars, ecsQueue, enqueued, events, markers,
                    result >>
    /\ UNCHANGED notHandshake

(***************************************************************************)
(* ClientboundLoginPacket::LoginFinished(p): acknowledge, switch to the    *)
(* configuration state, leave the loop, remove the login components and    *)
(* return Ok((conn, profile)).                                             *)
(***************************************************************************)
OkResult(profile) == [kind |-> "Ok", profile |-> profile]

\* mutant: the connection is switched to Configuration before the
\* acknowledgement is written
HandleLoginFinished_SwitchFirst ==
    /\ pc = "Match"
    /\ curPacket.type = "LoginFinished"
    /\ \E ok \in BOOLEAN :
        IF ok
        THEN /\ state' = "Configuration"
             /\ written' = Append(written, [packet |-> ServerboundLoginAcknowledged,
                                             cipher |-> writeCipher,
                                             state |-> "Configuration"])
             /\ markers' = markers \ LoginComponents
             /\ Return(OkResult(curPacket.game_profile))
        ELSE /\ Return(IoError)
             /\ UNCHANGED << written, state, markers >>
    /\ UNCHANGED << account, readLog, curPacket, connVars, authVars, ecsQueue,
                    enqueued, events >>
    /\ UNCHANGED notHandshake

HandleLoginFinished ==
    /\ pc = "Match"
    /\ curPacket.type = "LoginFinished"
    /\ \E ok \in BOOLEAN :
        IF ok
        THEN /\ written' = Wrote(ServerboundLoginAcknowledged)
             /\ state' = "Configuration"
             /\ markers' = markers \ LoginComponents
             /\ Return(OkResult(curPacket.game_profile))
        ELSE /\ Return(IoError)
             /\ UNCHANGED << written, state, markers >>
    /\ UNCHANGED << account, readLog, curPacket, connVars, authVars, ecsQueue,
                    enqueued, events >>
    /\ UNCHANGED notHandshake

\* mutant: the disconnect is only logged and the loop goes on
HandleLoginDisconnect_Ignored ==
    /\ pc = "Match"
    /\ curPacket.type = "LoginDisconnect"
    /\ pc' = "Select"
    /\ UNCHANGED << account, state, written, readLog, curPacket, connVars,
                    authVars, ecsQueue, enqueued, events, markers, result >>
    /\ UNCHANGED notHandshake

(***************************************************************************)
(* ClientboundLoginPacket::LoginDisconnect(p)                              *)
(***************************************************************************)
HandleLoginDisconnect ==
    /\ pc = "Match"
    /\ curPacket.type = "LoginDisconnect"
    /\ Return(DisconnectError(curPacket.reason))
    /\ UNCHANGED << account, state, written, readLog, curPacket, connVars,
                    authVars, ecsQueue, enqueued, events, markers >>
    /\ UNCHANGED notHandshake

(***************************************************************************)
(* ClientboundLoginPacket::CustomQuery(p): the reply is left to            *)
(* packet::login::process_packet_events, which goes through the queue.     *)
(***************************************************************************)
HandleCustomQuery ==
    /\ pc = "Match"
    /\ curPacket.type = "CustomQuery"
    /\ pc' = "Select"
    /\ UNCHANGED << account, state, written, readLog, curPacket, connVars,
                    authVars, ecsQueue, enqueued, events, markers, result >>
    /\ UNCHANGED notHandshake

\* mutant: the cookie request is only logged
HandleCookieRequest_NoReply ==
    /\ pc = "Match"
    /\ curPacket.type = "CookieRequest"
    /\ pc' = "Select"
    /\ UNCHANGED << account, state, written, readLog, curPacket, connVars,
                    authVars, ecsQueue, enqueued, events, markers, result >>
    /\ UNCHANGED notHandshake

(***************************************************************************)
(* ClientboundLoginPacket::CookieRequest(p)                                *)
(***************************************************************************)
HandleCookieRequest ==
    /\ pc = "Match"
    /\ curPacket.type = "CookieRequest"
    /\ \E ok \in BOOLEAN :
        IF ok
        THEN /\ written' = Wrote(ServerboundCookieResponse(curPacket))
             /\ pc' = "Select"
             /\ UNCHANGED result
        ELSE /\ Return(IoError)
             /\ UNCHANGED written
    /\ UNCHANGED << account, state, readLog, curPacket, connVars, authVars,
                    ecsQueue, enqueued, events, markers >>
    /\ UNCHANGED notHandshake

Next ==
    \/ WriteIntention
    \/ WriteHello
    \/ EcsEnqueue
    \/ SelectRecv
    \/ SelectRead
    \/ HandleHello
    \/ Authenticate
    \/ Refresh
    \/ WriteKey
    \/ HandleLoginCompression
    \/ HandleLoginFinished
    \/ HandleLoginDisconnect
    \/ HandleCustomQuery
    \/ HandleCookieRequest

Spec == Init /\ [][Next]_vars

(***************************************************************************)
(* Properties of Client::handshake.                                        *)
(***************************************************************************)
Indices(s) == 1..Len(s)

AuthenticateCalls == { i \in Indices(authLog) : authLog[i].op = "authenticate" }
RefreshCalls == { i \in Indices(authLog) : authLog[i].op = "refresh" }

\* an authenticate call that failed with one of the two kinds the loop retries on
IsRetryableFailure(call) ==
    /\ call.op = "authenticate"
    /\ call.res \in {"InvalidSession", "ForbiddenOperation"}

\* this step is handshake's (not a plugin queueing a packet)
HandshakeStep == pc' # pc \/ written' # written \/ authLog' # authLog

\* handshake has returned: nothing of the connection changes any more
Returned == pc = "Done"

StateRank(s) ==
    CASE s = "Handshake" -> 0
      [] s = "Login" -> 1
      [] s = "Configuration" -> 2

\* C2: the protocol state only moves forward; the first packet written is
\* ServerboundIntention (PROTOCOL_VERSION, intention Login), written in the
\* Handshake state; ServerboundHello is written in the Login state; the
\* connection is in Configuration only if a LoginFinished packet was read.
C2_WrittenInOrder ==
    /\ written # <<>> =>
          /\ written[1].packet.type = "Intention"
          /\ written[1].packet.protocol_version = "PROTOCOL_VERSION"
          /\ written[1].packet.intention = "Login"
          /\ written[1].state = "Handshake"
    /\ \A i \in Indices(written) :
          /\ written[i].packet.type = "Hello" => written[i].state = "Login" /\ i = 2
          /\ i > 1 => written[i].state # "Handshake"
    /\ state = "Handshake" => written = <<>>
    /\ state = "Configuration" =>
          \E i \in Indices(readLog) : readLog[i].packet.type = "LoginFinished"

\* C2: C2_WrittenInOrder holds in every state, and no step of handshake
\* takes the protocol state back: Handshake, then Login, then Configuration.
C2_StateMonotonic ==
    [](C2_WrittenInOrder) /\ [][StateRank(state') >= StateRank(state)]_vars

C2_Witness ==
    /\ state = "Configuration"
    /\ Len(written) >= 4
    /\ written[2].packet.type = "Hello"

\* C3: for one encryption request the client calls authenticate at most twice
\* and account.refresh() at most once, and every refresh call directly
\* follows an authenticate call that failed with InvalidSession or
\* ForbiddenOperation.
C3_AuthAttemptsBounded ==
    /\ Cardinality(AuthenticateCalls) <= 2
    /\ Cardinality(RefreshCalls) <= 1
    /\ \A i \in RefreshCalls : i > 1 /\ IsRetryableFailure(authLog[i - 1])
    /\ ~NeedsAuthentication(account) => authLog = <<>>

C3_Witness ==
    /\ Cardinality(AuthenticateCalls) = 2
    /\ Cardinality(RefreshCalls) = 1
    /\ authLog[1].res = "ForbiddenOperation"

\* the case of C4: a retryable failure, a refresh that went through, and a
\* second authenticate call that failed
SecondAuthFailed ==
    /\ Len(authLog) = 3
    /\ IsRetryableFailure(authLog[1])
    /\ authLog[2] = RefreshCall(TRUE)
    /\ authLog[3].op = "authenticate"
    /\ authLog[3].res # "Ok"

\* C4 as stated: after a retryable failure, a refresh and a second failure,
\* handshake returns an error of kind Auth.
C4_SecondFailureIsAuth ==
    SecondAuthFailed => result.kind = "Auth"

\* C4, amended: after a retryable failure, a refresh and a second failure,
\* handshake returns the error of kind SessionServer that carries the second
\* authenticate error; kind Auth is returned only when account.refresh()
\* itself fails.
C4_SecondFailureIsSessionServer ==
    /\ SecondAuthFailed =>
          /\ Returned
          /\ result = [kind |-> "SessionServer", err |-> authLog[3].res]
    /\ result.kind = "Auth" =>
          /\ authLog # <<>>
          /\ Last(authLog) = RefreshCall(FALSE)

C4_Witness ==
    /\ SecondAuthFailed
    /\ authLog[1].res = "InvalidSession"
    /\ authLog[3].res = "InvalidSession"
    /\ Returned

\* the case of C5: the first authenticate call failed with InvalidSession and
\* the second one succeeded
RetrySucceeded ==
    /\ Len(authLog) = 3
    /\ authLog[1].op = "authenticate"
    /\ authLog[1].res = "InvalidSession"
    /\ authLog[3].op = "authenticate"
    /\ authLog[3].res = "Ok"

\* ServerboundKey of the current request is the last packet written, it went
\* out in the Login state, and both halves now use the request's secret
KeySentAndInstalled ==
    /\ written # <<>>
    /\ Last(written).packet = [type |-> "Key", secret |-> secret]
    /\ readCipher = Some(secret)
    /\ writeCipher = Some(secret)

\* C5: when authenticate fails with InvalidSession and then succeeds,
\* account.refresh() was called exactly once (between the two calls), no
\* session-server or auth error is returned, and the next thing handshake does
\* is write ServerboundKey and install the encryption key, after which it is
\* back at the select of the login loop with nothing returned; the one other
\* way out of that write is the socket error of the write itself.
C5_RetryThenKey ==
    /\ [](RetrySucceeded =>
            /\ RefreshCalls = {2}
            /\ authLog[2] = RefreshCall(TRUE)
            /\ result.kind \notin {"SessionServer", "Auth"})
    /\ [][(RetrySucceeded' /\ ~RetrySucceeded) =>
            (pc' = "WriteKey" /\ result' = Pending)]_vars
    /\ [][(RetrySucceeded /\ pc = "WriteKey" /\ HandshakeStep) =>
            \/ (KeySentAndInstalled' /\ pc' = "Select" /\ result' = Pending
                /\ Len(written') = Len(written) + 1)
            \/ (result' = IoError /\ pc' = "Done" /\ written' = written)]_vars

C5_Witness ==
    /\ RetrySucceeded
    /\ KeySentAndInstalled
    /\ pc = "Select"
    /\ result = Pending

\* C6: an authenticate failure of a kind other than InvalidSession and
\* ForbiddenOperation makes handshake return the SessionServer error carrying
\* that kind at once: the step writes nothing, installs no key and calls no
\* refresh, and after the return nothing more is called, written or installed.
C6_OtherErrorIsTerminal ==
    /\ [][(pc = "Authenticate" /\ authLog' # authLog
            /\ Last(authLog').res \notin {"Ok", "InvalidSession", "ForbiddenOperation"}) =>
            /\ result' = [kind |-> "SessionServer", err |-> Last(authLog').res]
            /\ pc' = "Done"
            /\ Len(authLog') = Len(authLog) + 1
            /\ UNCHANGED << written, readCipher, writeCipher, account >>]_vars
    /\ [][Returned =>
            UNCHANGED << pc, result, authLog, written, readCipher, writeCipher,
                         account >>]_vars

C6_Witness ==
    /\ Returned
    /\ result = [kind |-> "SessionServer", err |-> "Other"]
    /\ Len(authLog) = 1
    /\ readCipher = None
    /\ writeCipher = None

\* the cipher a packet must go out under when it is written after n packets:
\* the secret of the last ServerboundKey among the first n, none if there is none
KeysAmong(n) == { j \in 1..n : written[j].packet.type = "Key" }

RECURSIVE MaxOf(_)
MaxOf(S) ==
    LET x == CHOOSE y \in S : TRUE
    IN IF S = {x} THEN x
       ELSE LET m == MaxOf(S \ {x}) IN IF x > m THEN x ELSE m

CipherAfter(n) ==
    IF KeysAmong(n) = {} THEN None
    ELSE Some(written[MaxOf(KeysAmong(n))].packet.secret)

\* the authentication of the current request succeeded or was not needed
AuthenticatedOrSkipped ==
    IF NeedsAuthentication(account)
    THEN /\ authLog # <<>>
         /\ Last(authLog).op = "authenticate"
         /\ Last(authLog).res = "Ok"
    ELSE authLog = <<>>

\* C7: ServerboundKey is written only after authentication succeeded or was
\* skipped (no access token); the cipher of either half changes only in the
\* step that writes ServerboundKey, to that request's secret on both halves;
\* so ServerboundKey and every packet before it go out without that cipher,
\* and every packet read or written after it uses it.
C7_KeyThenCipher ==
    /\ [](/\ \A i \in Indices(written) : written[i].cipher = CipherAfter(i - 1)
          /\ \A i \in Indices(readLog) : readLog[i].cipher = CipherAfter(readLog[i].after)
          /\ readCipher = CipherAfter(Len(written))
          /\ writeCipher = CipherAfter(Len(written)))
    /\ [][(written' # written /\ Last(written').packet.type = "Key") =>
            /\ AuthenticatedOrSkipped
            /\ Last(written').packet = [type |-> "Key", secret |-> secret]]_vars
    /\ [][(readCipher' # readCipher \/ writeCipher' # writeCipher) =>
            /\ Len(written') = Len(written) + 1
            /\ Last(written').packet = [type |-> "Key", secret |-> secret]
            /\ readCipher' = Some(secret)
            /\ writeCipher' = Some(secret)]_vars

\* a packet was written under the cipher and one was read under it, after a
\* ServerboundKey that followed a successful authentication
C7_Witness ==
    /\ NeedsAuthentication(account)
    /\ \E i \in Indices(written) :
          /\ written[i].packet.type = "Key"
          /\ written[i].cipher = None
          /\ i < Len(written)
          /\ written[i + 1].cipher = Some(written[i].packet.secret)
    /\ Last(readLog).cipher # None

\* C8: the step that handles LoginDisconnect returns JoinError::Disconnect
\* with the packet's reason, writes nothing and leaves the connection in the
\* Login state; nothing is written after the return.
C8_DisconnectReturns ==
    /\ [][(pc = "Match" /\ curPacket.type = "LoginDisconnect" /\ HandshakeStep) =>
            /\ result' = [kind |-> "Disconnect", reason |-> curPacket.reason]
            /\ pc' = "Done"
            /\ written' = written
            /\ state = "Login"
            /\ state' = "Login"]_vars
    /\ [](result.kind = "Disconnect" =>
            /\ Returned
            /\ state = "Login"
            /\ Last(readLog).packet.type = "LoginDisconnect"
            /\ result.reason = Last(readLog).packet.reason
            /\ Len(written) = Last(readLog).after)
    /\ [][Returned => UNCHANGED << pc, result, written, state >>]_vars

C8_Witness ==
    /\ result = [kind |-> "Disconnect", reason |-> "full"]
    /\ Len(readLog) = 2
    /\ state = "Login"

\* the cookie request read as the i-th packet has been answered: the packet
\* written right after it is the ServerboundCookieResponse with its key and
\* payload none
Answered(i) ==
    /\ Len(written) > readLog[i].after
    /\ written[readLog[i].after + 1].packet =
          [type |-> "CookieResponse", key |-> readLog[i].packet.key, payload |-> None]

CookieRequests == { i \in Indices(readLog) : readLog[i].packet.type = "CookieRequest" }
CookieResponses == { j \in Indices(written) : written[j].packet.type = "CookieResponse" }

\* C9: every CookieRequest read is answered by exactly one
\* ServerboundCookieResponse with the same key and payload none, written
\* before the next packet is read and before handshake returns Ok: a request
\* is unanswered only while it is being handled, or when the write of its
\* response failed and handshake returned the socket error.
C9_CookieAnswered ==
    /\ \A i \in CookieRequests :
          \/ Answered(i)
          \/ (i = Len(readLog) /\ pc = "Match")
          \/ (i = Len(readLog) /\ Returned /\ result = IoError
              /\ Len(written) = readLog[i].after)
    /\ \A i \in CookieRequests :
          i < Len(readLog) => Answered(i) /\ readLog[i + 1].after > readLog[i].after
    /\ \A j \in CookieResponses :
          \E i \in CookieRequests : readLog[i].after + 1 = j
    /\ \A i, k \in CookieRequests : readLog[i].after = readLog[k].after => i = k
    /\ (pc = "Select" \/ result.kind = "Ok") =>
          Cardinality(CookieResponses) = Cardinality(CookieRequests)

C9_Witness ==
    /\ CookieRequests = {1, 2}
    /\ Cardinality(CookieResponses) = 2
    /\ readLog[1].packet.key # readLog[2].packet.key
    /\ result.kind = "Ok"

\* C10: the step that handles LoginCompression sets the compression threshold
\* of the read half and of the write half to the packet's threshold, writes
\* nothing, stays in the Login state and goes back to the select; the ciphers,
\* the account and the result are unchanged.
C10_CompressionOnly ==
    [][(pc = "Match" /\ curPacket.type = "LoginCompression" /\ HandshakeStep) =>
          /\ readThreshold' = Some(curPacket.compression_threshold)
          /\ writeThreshold' = Some(curPacket.compression_threshold)
          /\ written' = written
          /\ state = "Login"
          /\ state' = "Login"
          /\ pc' = "Select"
          /\ UNCHANGED << readCipher, writeCipher, result, account, authLog,
                          readLog, curPacket, markers >>]_vars

C10_Witness ==
    /\ pc = "Select"
    /\ readLog # <<>>
    /\ Last(readLog).packet = [type |-> "LoginCompression", compression_threshold |-> 256]
    /\ readThreshold = Some(256)
    /\ writeThreshold = Some(256)
    /\ writeCipher # None
    /\ state = "Login"

\* C34 as stated, in the form a finite run refutes: every packet put on the
\* LoginSendPacketQueue during the login loop is written to the server; so
\* when handshake has returned Ok, none is left in the queue.
C34_QueuedPacketsWritten ==
    result.kind = "Ok" => ecsQueue = << >>

(***************************************************************************)
(* Part 2: the schedule runner.                                            *)
(*                                                                         *)
(* tick_run_schedule_loop sends a signal on the run-schedule channel each  *)
(* time its 50 ms interval ticks; run_schedule_loop receives the signals   *)
(* (the interval's and those forced through run_schedule_sender) and runs  *)
(* the Update schedule, and the GameTick schedule when one is due.  The    *)
(* clock moves on its own: a task that is not scheduled in time falls      *)
(* behind.                                                                 *)
(***************************************************************************)
\* the clock stops once it is past this
MaxTime == 100

\* how far the clock moves in one step: a short while, or a long stall
TimeSteps == {25, 650}

\* Duration::from_millis(50) of time::interval
IntervalMillis == 50
\* Duration::from_millis(50) of run_schedule_loop
GameTickMillis == 50
\* mpsc::channel(1)
ChannelCapacity == 1

TimePasses ==
    /\ \E d \in TimeSteps :
        /\ now < MaxTime
        /\ now' = now + d
    /\ burst' = 0
    /\ UNCHANGED << deadline, tickTask, chan, loopTask, signal, last_tick,
                    firstTick, gameTicks, lastRun, disconnected >>
    /\ UNCHANGED notTick

\* the receiver half is closed only when run_schedule_loop, which owns it,
\* is over
ReceiverClosed == loopTask = "returned"

\* run_schedule_sender.try_send(()): Ok, Err(Full) or Err(Closed)
TrySend(who) ==
    IF ReceiverClosed THEN "Closed"
    ELSE IF Len(chan) >= ChannelCapacity THEN "Full"
    ELSE "Ok"

(***************************************************************************)
(* One pass of tick_run_schedule_loop: game_tick_interval.tick().await     *)
(* completes once the tick is due; with MissedTickBehavior::Burst the next *)
(* tick is due one period after this one was, however late this one is.    *)
(* Then try_send: only Err(Closed) ends the task, Err(Full) is ignored.    *)
(***************************************************************************)
IntervalTick ==
    /\ tickTask = "running"
    /\ now >= deadline
    /\ deadline' = deadline + IntervalMillis
    /\ IF TrySend("tick") = "Closed"
       THEN /\ tickTask' = "returned"
            /\ UNCHANGED chan
       ELSE /\ chan' = IF TrySend("tick") = "Ok" THEN Append(chan, "tick") ELSE chan
            /\ UNCHANGED tickTask
    /\ UNCHANGED << now, loopTask, signal, last_tick, firstTick, gameTicks,
                    lastRun, burst, disconnected >>
    /\ UNCHANGED notTick

\* code outside the runner forces a schedule run through run_schedule_sender
ForceRun ==
    /\ TrySend("forced") = "Ok"
    /\ chan' = Append(chan, "forced")
    /\ UNCHANGED << now, deadline, tickTask, loopTask, signal, last_tick,
                    firstTick, gameTicks, lastRun, burst, disconnected >>
    /\ UNCHANGED notTick

\* run_schedule_receiver.recv().await
ScheduleRecv ==
    /\ loopTask = "recv"
    /\ chan # <<>>
    /\ signal' = Head(chan)
    /\ chan' = Tail(chan)
    /\ loopTask' = "run"
    /\ UNCHANGED << now, deadline, tickTask, last_tick, firstTick, gameTicks,
                    lastRun, burst, disconnected >>
    /\ UNCHANGED notTick

\* mutant: a game tick is due as soon as 50 ms have passed
GameTickDue_AtFifty(last, t) ==
    IF last = None THEN TRUE ELSE t - last[1] >= GameTickMillis

\* mutant: the GameTick schedule runs on every signal
GameTickDue_Always(last, t) == TRUE

\* last_tick.map(|last_tick| last_tick.elapsed() > 50 ms).unwrap_or(true)
GameTickDue(last, t) ==
    IF last = None THEN TRUE ELSE t - last[1] > GameTickMillis

\* *last_tick += 50 ms, or last_tick = Some(Instant::now())
NextLastTick(last, t) ==
    IF last = None THEN Some(t) ELSE Some(last[1] + GameTickMillis)

(***************************************************************************)
(* The rest of the pass of run_schedule_loop, under the ECS lock: run the  *)
(* Update schedule, then the GameTick schedule if one is due.              *)
(***************************************************************************)
ScheduleRun ==
    /\ loopTask = "run"
    /\ loopTask' = "recv"
    /\ signal' = "none"
    /\ IF GameTickDue(last_tick, now)
       THEN /\ last_tick' = NextLastTick(last_tick, now)
            /\ firstTick' = IF firstTick = None THEN Some(now) ELSE firstTick
            /\ gameTicks' = gameTicks + 1
            /\ burst' = burst + 1
            /\ lastRun' = [signal |-> signal, update |-> 1, gameTick |-> 1]
       ELSE /\ lastRun' = [signal |-> signal, update |-> 1, gameTick |-> 0]
            /\ UNCHANGED << last_tick, firstTick, gameTicks, burst >>
    /\ UNCHANGED << now, deadline, tickTask, chan, disconnected >>
    /\ UNCHANGED notTick

\* Client::disconnect: a DisconnectEvent for the client's entity is sent to
\* the ECS; the runner's channel and tasks are not touched
Disconnect ==
    /\ ~disconnected
    /\ disconnected' = TRUE
    /\ UNCHANGED << now, deadline, tickTask, chan, loopTask, signal, last_tick,
                    firstTick, gameTicks, lastRun, burst >>
    /\ UNCHANGED notTick

TickNext ==
    \/ TimePasses
    \/ IntervalTick
    \/ ForceRun
    \/ ScheduleRecv
    \/ ScheduleRun
    \/ Disconnect

\* the runner alone: no join is under way
RunnerInit == Init /\ account.access_token = None

SpecTick == RunnerInit /\ [][TickNext]_vars

(***************************************************************************)
(* Properties of the schedule runner.                                      *)
(***************************************************************************)
\* this step is the pass of run_schedule_loop that handles a received signal
RunsSchedules == loopTask = "run" /\ loopTask' = "recv"

\* more than 50 ms have passed since last_tick, or no game tick has run yet
DueNow == IF last_tick = None THEN TRUE ELSE now - last_tick[1] > 50

\* C11 as stated: every tick signal of the interval task that the schedule
\* loop receives makes it run the GameTick schedule once (and Update once).
C11_TickSignalRunsGameTick ==
    [][(RunsSchedules /\ signal = "tick") =>
          /\ lastRun'.update = 1
          /\ gameTicks' = gameTicks + 1]_vars

\* C11, amended: every tick signal the schedule loop receives makes it run the
\* Update schedule once, and the GameTick schedule once exactly when no game
\* tick has run yet or more than 50 ms have passed since last_tick; a tick
\* signal handled within 50 ms of last_tick runs no GameTick.
C11_TickSignalRunsGameTickIfDue ==
    [][(RunsSchedules /\ signal = "tick") =>
          /\ lastRun'.signal = "tick"
          /\ lastRun'.update = 1
          /\ gameTicks' = gameTicks + (IF DueNow THEN 1 ELSE 0)
          /\ lastRun'.gameTick = gameTicks' - gameTicks]_vars

\* a tick signal was handled without a game tick
C11_Witness ==
    /\ lastRun = [signal |-> "tick", update |-> 1, gameTick |-> 0]
    /\ gameTicks >= 1
    /\ now - last_tick[1] <= 50

\* C12 as stated: missed game ticks are caught up in a burst of at most 10
\* ticks: the GameTick schedule never runs more than 10 times without the
\* clock moving.
C12_BurstAtMostTen == burst <= 10

\* C13: the pass that handles a signal runs Update exactly once and GameTick
\* at most once, GameTick only when due (no game tick yet, or more than 50 ms
\* since last_tick), and a game tick moves last_tick on by exactly 50 ms; so
\* at any time the number of GameTick runs is at most
\* 1 + (now - time of the first game tick) / 50 ms, whoever sent the signals.
C13_GameTicksRateLimited ==
    /\ [][RunsSchedules =>
            /\ lastRun'.update = 1
            /\ lastRun'.gameTick \in {0, 1}
            /\ gameTicks' = gameTicks + lastRun'.gameTick
            /\ lastRun'.gameTick = 1 => DueNow
            /\ (lastRun'.gameTick = 1 /\ last_tick # None) =>
                  last_tick' = Some(last_tick[1] + 50)
            /\ lastRun'.gameTick = 0 => last_tick' = last_tick]_vars
    /\ [][gameTicks' # gameTicks => RunsSchedules]_vars
    /\ []((gameTicks = 0) <=> (firstTick = None))
    /\ [](firstTick # None => (gameTicks - 1) * 50 <= now - firstTick[1])

\* game ticks have run as fast as the limit allows, and a forced signal
\* handled within 50 ms of last_tick ran Update without a game tick
C13_Witness ==
    /\ lastRun = [signal |-> "forced", update |-> 1, gameTick |-> 0]
    /\ gameTicks >= 2
    /\ firstTick # None
    /\ now - last_tick[1] <= 50
    /\ gameTicks * 50 > now - firstTick[1]

\* C14 as stated, in the form a finite run refutes: after a disconnect the
\* tick task's next send fails because the channel is closed, and the task
\* returns.
C14_NextSendAfterDisconnectFails ==
    [][(disconnected /\ tickTask = "running" /\ deadline' # deadline) =>
          tickTask' = "returned"]_vars

\* what the runner does instead: run_schedule_loop never returns, so the
\* receiver is never closed and the tick task never returns
TickTaskNeverReturns ==
    /\ tickTask = "running"
    /\ loopTask \in {"recv", "run"}
    /\ ~ReceiverClosed

(***************************************************************************)
(* Part 3: chunk batching (chunk_batching.rs).  Two entities receive       *)
(* events: one has a ChunkBatchInfo component, the other has none.         *)
(***************************************************************************)
MaxEvents == 2            \* events read by one run of the finished system
MaxOffBatches == 1        \* system runs that change the aggregate
MaxChunkNow == 1000000    \* time passes only while the clock is below this

Entities == {"bot", "other"}
HasChunkBatchInfo == {"bot"}
BatchSizes == {0, 10}
BatchDurations == {40000000, 400000000}    \* batches that took 40 ms, 400 ms

Min(a, b) == IF a <= b THEN a ELSE b

\* ChunkBatchStartEvent, ChunkBatchFinishedEvent
ChunkBatchStartEvent(e) == [entity |-> e]
ChunkBatchFinishedEvent(e, n) == [entity |-> e, batch_size |-> n]

\* the batch size of an event is read only if its entity has a ChunkBatchInfo
ChunkBatchFinishedEvents ==
    {ChunkBatchFinishedEvent(e, n) : e \in HasChunkBatchInfo, n \in BatchSizes}
    \cup {ChunkBatchFinishedEvent(e, 10) : e \in Entities \ HasChunkBatchInfo}

\* the event lists one run of the system may read
EventLists ==
    UNION {[1..k -> ChunkBatchFinishedEvents] : k \in 1..MaxEvents}

\* start_time.elapsed()
Elapsed(info) == chunkNow - info.start_time

\* Time passes until the running batch has taken 40 ms or 400 ms, or exactly
\* as long as a batch of n chunks takes at the aggregate rate.
ChunkTimePasses ==
    /\ chunkNow < MaxChunkNow
    /\ \E d \in BatchDurations \cup
                {n * chunkInfo.aggregated_duration_per_chunk :
                    n \in BatchSizes \ {0}} :
          /\ d > Elapsed(chunkInfo)
          /\ chunkNow' = chunkInfo.start_time + d
    /\ UNCHANGED << chunkInfo, offBatches, lastEvents, lastElapsed,
                    beforeEvents, afterEvents, sendPackets >>
    /\ UNCHANGED notChunk

\* handle_chunk_batch_start_event, for one event
handle_chunk_batch_start_event ==
    /\ \E ev \in {ChunkBatchStartEvent(e) : e \in Entities} :
          chunkInfo' = IF ev.entity \in HasChunkBatchInfo
                       THEN [chunkInfo EXCEPT !.start_time = chunkNow]
                       ELSE chunkInfo
    /\ UNCHANGED << chunkNow, offBatches, lastEvents, lastElapsed,
                    beforeEvents, afterEvents, sendPackets >>
    /\ UNCHANGED notChunk

\* mutant: no bound below or above
Clamp_None(x, lo, hi) == x

\* Duration::clamp(x, lo, hi)
Clamp(x, lo, hi) == IF x < lo THEN lo ELSE IF x > hi THEN hi ELSE x

\* mutant: the weight is not capped
batch_finished_NoCap(info, batch_size, elapsed) ==
    IF batch_size = 0 THEN info
    ELSE LET a == info.aggregated_duration_per_chunk
             w == info.old_samples_weight
             clamped == Clamp(elapsed \div batch_size, a \div 3, a * 3)
         IN  [info EXCEPT
                !.aggregated_duration_per_chunk = (a * w + clamped) \div (w + 1),
                !.old_samples_weight = w + 1]

\* mutant: the old samples count once, whatever their weight
batch_finished_Unweighted(info, batch_size, elapsed) ==
    IF batch_size = 0 THEN info
    ELSE LET a == info.aggregated_duration_per_chunk
             w == info.old_samples_weight
             clamped == Clamp(elapsed \div batch_size, a \div 3, a * 3)
         IN  [info EXCEPT
                !.aggregated_duration_per_chunk = (a + clamped) \div 2,
                !.old_samples_weight = Min(49, w + 1)]

\* mutant: an empty batch counts as a sample of the aggregate
batch_finished_CountsEmpty(info, batch_size, elapsed) ==
    LET a == info.aggregated_duration_per_chunk
        w == info.old_samples_weight
        clamped == IF batch_size = 0 THEN a
                   ELSE Clamp(elapsed \div batch_size, a \div 3, a * 3)
    IN  [info EXCEPT
           !.aggregated_duration_per_chunk = (a * w + clamped) \div (w + 1),
           !.old_samples_weight = Min(49, w + 1)]

\* ChunkBatchInfo::batch_finished; elapsed is self.start_time.elapsed()
batch_finished(info, batch_size, elapsed) ==
    IF batch_size = 0 THEN info
    ELSE LET a == info.aggregated_duration_per_chunk
             w == info.old_samples_weight
             batch_duration == elapsed
             duration_per_chunk == batch_duration \div batch_size
             clamped_duration == Clamp(duration_per_chunk, a \div 3, a * 3)
         IN  [info EXCEPT
                !.aggregated_duration_per_chunk =
                    (a * w + clamped_duration) \div (w + 1),
                !.old_samples_weight = Min(49, w + 1)]

\* ChunkBatchInfo::desired_chunks_per_tick: the quotient 7000000 / nanoseconds,
\* kept as the pair of its terms (the rounding to f32 is not modelled)
desired_chunks_per_tick(info) ==
    [num |-> 7000000, den |-> info.aggregated_duration_per_chunk]

ServerboundChunkBatchReceivedPacket(d) ==
    [type |-> "ChunkBatchReceived", desired_chunks_per_tick |-> d]
SendPacketEvent(e, p) == [entity |-> e, packet |-> p]

RECURSIVE FinishedEvents_Stale(_, _, _)
\* mutant: the packet carries the estimate from before the batch
FinishedEvents_Stale(info, evs, elapsed) ==
    IF evs = <<>> THEN [info |-> info, packets |-> <<>>]
    ELSE LET ev == Head(evs)
             has == ev.entity \in HasChunkBatchInfo
             updated == IF has
                        THEN batch_finished(info, ev.batch_size, elapsed)
                        ELSE info
             rest == FinishedEvents_Stale(updated, Tail(evs), elapsed)
         IN  [info |-> rest.info,
              packets |->
                (IF has
                 THEN << SendPacketEvent(ev.entity,
                           ServerboundChunkBatchReceivedPacket(
                               desired_chunks_per_tick(info))) >>
                 ELSE << >>) \o rest.packets]

RECURSIVE FinishedEvents(_, _, _)
\* the loop of handle_chunk_batch_finished_event over the events it reads:
\* the ChunkBatchInfo it leaves and the SendPacketEvents it writes
FinishedEvents(info, evs, elapsed) ==
    IF evs = <<>> THEN [info |-> info, packets |-> <<>>]
    ELSE LET ev == Head(evs)
             has == ev.entity \in HasChunkBatchInfo
             updated == IF has
                        THEN batch_finished(info, ev.batch_size, elapsed)
                        ELSE info
             rest == FinishedEvents(updated, Tail(evs), elapsed)
         IN  [info |-> rest.info,
              packets |->
                (IF has
                 THEN << SendPacketEvent(ev.entity,
                           ServerboundChunkBatchReceivedPacket(
                               desired_chunks_per_tick(updated))) >>
                 ELSE << >>) \o rest.packets]

\* handle_chunk_batch_finished_event, one run of the system
handle_chunk_batch_finished_event ==
    /\ \E evs \in EventLists :
          LET done == FinishedEvents(chunkInfo, evs, Elapsed(chunkInfo))
              off == IF done.info.aggregated_duration_per_chunk
                          # chunkInfo.aggregated_duration_per_chunk
                     THEN 1 ELSE 0
          IN  /\ offBatches + off <= MaxOffBatches
              /\ offBatches' = offBatches + off
              /\ chunkInfo' = done.info
              /\ afterEvents' = done.info
              /\ sendPackets' = done.packets
              /\ lastEvents' = evs
    /\ lastElapsed' = Elapsed(chunkInfo)
    /\ beforeEvents' = chunkInfo
    /\ UNCHANGED chunkNow
    /\ UNCHANGED notChunk

ChunkNext ==
    \/ ChunkTimePasses
    \/ handle_chunk_batch_start_event
    \/ handle_chunk_batch_finished_event

SpecChunk == RunnerInit /\ [][ChunkNext]_vars

\* a batch size as the server may announce it (batch_size: u32): more chunks
\* than the batch took nanoseconds
HugeBatchSize == 1000000000

\* handle_chunk_batch_finished_event reading one event of that size for the
\* entity with a ChunkBatchInfo
handle_huge_chunk_batch ==
    /\ LET evs == << ChunkBatchFinishedEvent("bot", HugeBatchSize) >>
           done == FinishedEvents(chunkInfo, evs, Elapsed(chunkInfo))
       IN  /\ chunkInfo' = done.info
           /\ afterEvents' = done.info
           /\ sendPackets' = done.packets
           /\ lastEvents' = evs
    /\ lastElapsed' = Elapsed(chunkInfo)
    /\ beforeEvents' = chunkInfo
    /\ UNCHANGED << chunkNow, offBatches >>
    /\ UNCHANGED notChunk

\* the finished system fed such batches one after the other
SpecChunkHuge == RunnerInit /\ [][handle_huge_chunk_batch]_vars

(***************************************************************************)
(* Properties of chunk batching, stated on the last run of                 *)
(* handle_chunk_batch_finished_event: the events it read (lastEvents), the *)
(* elapsed time it measured (lastElapsed), the ChunkBatchInfo before and   *)
(* after it, and the packets it wrote.                                     *)
(***************************************************************************)
\* the events of evs whose entity has a ChunkBatchInfo, in order
WithInfo(evs) == SelectSeq(evs, LAMBDA ev : ev.entity = "bot")

\* the batch sizes of the batch_finished calls with batch_size > 0
CallSizes(evs) ==
    LET calls == SelectSeq(WithInfo(evs), LAMBDA ev : ev.batch_size > 0)
    IN  [i \in DOMAIN calls |-> calls[i].batch_size]

\* (a*w + clamp(e/n, a/3, a*3)) / (w + 1) in integer nanoseconds
WeightedMean(a, w, n, e) ==
    LET sample == e \div n
        low == a \div 3
        high == a * 3
        clamped == IF sample < low THEN low
                   ELSE IF sample > high THEN high ELSE sample
    IN  (a * w + clamped) \div (w + 1)

HandlerRan == lastEvents # << >>

\* C15: from ChunkBatchInfo::default(), old_samples_weight stays in [1, 49];
\* each batch_finished call with batch_size > 0 raises it by exactly 1 until
\* it is 49, and then it stays 49.
C15_WeightBounded ==
    /\ chunkInfo.old_samples_weight \in 1..49
    /\ HandlerRan =>
          /\ afterEvents.old_samples_weight =
                IF beforeEvents.old_samples_weight + Len(CallSizes(lastEvents)) < 49
                THEN beforeEvents.old_samples_weight + Len(CallSizes(lastEvents))
                ELSE 49
          /\ chunkInfo.old_samples_weight = afterEvents.old_samples_weight

\* a batch finished at weight 49 and the weight stayed 49
C15_Witness ==
    /\ HandlerRan
    /\ beforeEvents.old_samples_weight = 49
    /\ Len(CallSizes(lastEvents)) >= 1
    /\ chunkInfo.old_samples_weight = 49

\* C16: batch_finished(n) with n > 0 sets aggregated_duration_per_chunk to
\* (a*w + clamp(elapsed/n, a/3, a*3)) / (w + 1) in integer nanoseconds, a and
\* w being the aggregate and the weight before the call; with a = 2 ms,
\* w = 1, n = 10 and elapsed = 40 ms the aggregate becomes 3 ms and the
\* weight 2.
C16_WeightedMean ==
    LET a == beforeEvents.aggregated_duration_per_chunk
        w == beforeEvents.old_samples_weight
        ns == CallSizes(lastEvents)
    IN  /\ (HandlerRan /\ Len(ns) = 1) =>
              /\ afterEvents.aggregated_duration_per_chunk =
                    WeightedMean(a, w, ns[1], lastElapsed)
              /\ chunkInfo.aggregated_duration_per_chunk =
                    afterEvents.aggregated_duration_per_chunk
        /\ (HandlerRan /\ Len(ns) = 2) =>
              afterEvents.aggregated_duration_per_chunk =
                 WeightedMean(WeightedMean(a, w, ns[1], lastElapsed),
                              IF w < 49 THEN w + 1 ELSE 49, ns[2], lastElapsed)
        /\ (/\ HandlerRan
            /\ a = 2000000
            /\ w = 1
            /\ ns = << 10 >>
            /\ lastElapsed = 40000000) =>
              /\ afterEvents.aggregated_duration_per_chunk = 3000000
              /\ afterEvents.old_samples_weight = 2

\* the batch of 10 chunks that took 40 ms, from the default estimator
C16_Witness ==
    /\ HandlerRan
    /\ beforeEvents.aggregated_duration_per_chunk = 2000000
    /\ beforeEvents.old_samples_weight = 1
    /\ CallSizes(lastEvents) = << 10 >>
    /\ lastElapsed = 40000000
    /\ chunkInfo.aggregated_duration_per_chunk = 3000000
    /\ chunkInfo.old_samples_weight = 2

\* C17 as stated: after a batch_finished call with batch_size > 0 the
\* aggregate is within a factor of 3 of that call's sample elapsed / batch_size.
C17_WithinFactorOfSample ==
    LET ns == CallSizes(lastEvents)
        sample == lastElapsed \div ns[1]
        a == afterEvents.aggregated_duration_per_chunk
    IN  (HandlerRan /\ Len(ns) = 1) =>
           /\ a <= 3 * sample
           /\ sample <= 3 * a

\* C17, amended: after a batch_finished call with batch_size > 0 the
\* aggregate is within a factor of 3 of the aggregate before the call
\* (between a/3 and a*3), and lies between that aggregate and the sample
\* clamped to [a/3, a*3].
C17_WithinFactorOfOldAggregate ==
    LET ns == CallSizes(lastEvents)
        sample == lastElapsed \div ns[1]
        a == beforeEvents.aggregated_duration_per_chunk
        new == afterEvents.aggregated_duration_per_chunk
        clamped == IF sample < a \div 3 THEN a \div 3
                   ELSE IF sample > a * 3 THEN a * 3 ELSE sample
    IN  (HandlerRan /\ Len(ns) = 1) =>
           /\ a \div 3 <= new
           /\ new <= a * 3
           /\ \/ a <= new /\ new <= clamped
              \/ clamped <= new /\ new <= a

\* a sample of 40 ms per chunk moved the aggregate from 2 ms to 4 ms
C17_Witness ==
    /\ HandlerRan
    /\ CallSizes(lastEvents) = << 10 >>
    /\ lastElapsed = 400000000
    /\ beforeEvents.aggregated_duration_per_chunk = 2000000
    /\ afterEvents.aggregated_duration_per_chunk = 4000000

\* C18: batch_finished(0) leaves start_time, aggregated_duration_per_chunk
\* and old_samples_weight unchanged.
C18_EmptyBatchChangesNothing ==
    (HandlerRan /\ CallSizes(lastEvents) = << >>) =>
       /\ afterEvents.start_time = beforeEvents.start_time
       /\ afterEvents.aggregated_duration_per_chunk =
             beforeEvents.aggregated_duration_per_chunk
       /\ afterEvents.old_samples_weight = beforeEvents.old_samples_weight

\* batch_finished(0) was called on an estimator that had moved off its
\* default, some time after its batch started
C18_Witness ==
    /\ HandlerRan
    /\ WithInfo(lastEvents) # << >>
    /\ CallSizes(lastEvents) = << >>
    /\ lastElapsed > 0
    /\ beforeEvents.old_samples_weight > 1
    /\ afterEvents = beforeEvents

\* C19: a run of handle_chunk_batch_finished_event writes exactly one
\* ServerboundChunkBatchReceived packet for every event whose entity has a
\* ChunkBatchInfo, for that entity and in order, carrying 7000000 / the
\* aggregate in nanoseconds of the estimator as updated with that event's
\* batch; events of an entity without ChunkBatchInfo write nothing and change
\* no estimator.
C19_OnePacketPerEvent ==
    LET evs == WithInfo(lastEvents)
        a == beforeEvents.aggregated_duration_per_chunk
        w == beforeEvents.old_samples_weight
        first == IF evs[1].batch_size = 0 THEN a
                 ELSE WeightedMean(a, w, evs[1].batch_size, lastElapsed)
    IN  HandlerRan =>
          /\ Len(sendPackets) = Len(evs)
          /\ \A i \in DOMAIN sendPackets :
                /\ sendPackets[i].entity = evs[i].entity
                /\ sendPackets[i].packet.type = "ChunkBatchReceived"
                /\ sendPackets[i].packet.desired_chunks_per_tick.num = 7000000
          /\ evs # << >> =>
                /\ sendPackets[1].packet.desired_chunks_per_tick.den = first
                /\ sendPackets[Len(evs)].packet.desired_chunks_per_tick.den =
                      afterEvents.aggregated_duration_per_chunk
          /\ evs = << >> => afterEvents = beforeEvents

\* an event of the entity without ChunkBatchInfo and a batch of the entity
\* with one: one packet, carrying the estimate the batch produced
C19_Witness ==
    /\ HandlerRan
    /\ Len(lastEvents) = 2
    /\ lastEvents[1].entity = "other"
    /\ lastEvents[2] = [entity |-> "bot", batch_size |-> 10]
    /\ Len(sendPackets) = 1
    /\ sendPackets[1].entity = "bot"
    /\ afterEvents.aggregated_duration_per_chunk
          # beforeEvents.aggregated_duration_per_chunk
    /\ sendPackets[1].packet.desired_chunks_per_tick =
          [num |-> 7000000, den |-> afterEvents.aggregated_duration_per_chunk]

\* C39 as stated: from ChunkBatchInfo::default(), whatever batches finish,
\* aggregated_duration_per_chunk is never zero, so the divisor of
\* desired_chunks_per_tick is never zero in a packet sent.
C39_AggregateNeverZero ==
    /\ chunkInfo.aggregated_duration_per_chunk > 0
    /\ \A i \in DOMAIN sendPackets :
          sendPackets[i].packet.desired_chunks_per_tick.den # 0

(***************************************************************************)
(* Part 4: ChunkReceiveSpeedAccumulator (chunk_batching.rs 109-149).  The  *)
(* vectors are functions on 0..capacity-1, indexed as the code indexes     *)
(* them.  A Duration is its whole seconds and its nanoseconds below one    *)
(* second.                                                                 *)
(***************************************************************************)
MaxAccumulate == 4        \* calls of accumulate

Capacities == {1, 2, 3}
AccumulatedSizes == {1, 10}
\* 2.999999 ms, 14.999999999 s, 15.001 s
AccumulatedDurations ==
    {[secs |-> 0, nanos |-> 2999999],
     [secs |-> 14, nanos |-> 999999999],
     [secs |-> 15, nanos |-> 1000000]}

\* Duration::as_millis
as_millis(d) == d.secs * 1000 + d.nanos \div 1000000

\* f32::clamp(ms as f32, 0., 15000.) as u32; ms is not negative, and the
\* conversions are exact below 2^24
ClampMillis(ms) == IF ms > 15000 THEN 15000 ELSE ms

\* ChunkReceiveSpeedAccumulator::new
ChunkReceiveSpeedAccumulator(c) ==
    [batch_sizes |-> [i \in 0..(c - 1) |-> 0],
     batch_durations |-> [i \in 0..(c - 1) |-> 0],
     index |-> 0,
     filled_size |-> 0]

VecLen(v) == Cardinality(DOMAIN v)

\* mutant: the index stops at the last slot
accumulate_NoWrap(acc, batch_size, batch_duration) ==
    [batch_sizes |-> [acc.batch_sizes EXCEPT ![acc.index] = batch_size],
     batch_durations |->
        [acc.batch_durations EXCEPT
            ![acc.index] = ClampMillis(as_millis(batch_duration))],
     index |-> Min(acc.index + 1, VecLen(acc.batch_sizes) - 1),
     filled_size |-> IF acc.filled_size < VecLen(acc.batch_sizes)
                     THEN acc.filled_size + 1
                     ELSE acc.filled_size]

\* ChunkReceiveSpeedAccumulator::accumulate
accumulate(acc, batch_size, batch_duration) ==
    [batch_sizes |-> [acc.batch_sizes EXCEPT ![acc.index] = batch_size],
     batch_durations |->
        [acc.batch_durations EXCEPT
            ![acc.index] = ClampMillis(as_millis(batch_duration))],
     index |-> (acc.index + 1) % VecLen(acc.batch_sizes),
     filled_size |-> IF acc.filled_size < VecLen(acc.batch_sizes)
                     THEN acc.filled_size + 1
                     ELSE acc.filled_size]

\* a caller makes an accumulator
New ==
    /\ accumulator = None
    /\ \E c \in Capacities :
          /\ accumulator' = Some(ChunkReceiveSpeedAccumulator(c))
          /\ capacity' = Some(c)
    /\ UNCHANGED samples
    /\ UNCHANGED notAccumulator

\* a caller accumulates a sample
Accumulate ==
    /\ accumulator # None
    /\ Len(samples) < MaxAccumulate
    /\ \E n \in AccumulatedSizes, d \in AccumulatedDurations :
          /\ accumulator' = Some(accumulate(accumulator[1], n, d))
          /\ samples' = Append(samples, [batch_size |-> n, batch_duration |-> d])
    /\ UNCHANGED capacity
    /\ UNCHANGED notAccumulator

AccumulatorNext == New \/ Accumulate

SpecAccumulator == RunnerInit /\ [][AccumulatorNext]_vars

\* C20: for an accumulator of capacity c >= 1 and after any calls of
\* accumulate, index < c, filled_size is the smaller of the number of calls
\* and c, both vectors have length c, every stored duration is between 0 and
\* 15000 ms, and the slots hold exactly the most recent min(calls, c) samples
\* (sample number i in slot (i - 1) mod c), the other slots being still 0.
C20_RingBuffer ==
    accumulator # None =>
       LET acc == accumulator[1]
           c == capacity[1]
           calls == Len(samples)
           filled == IF calls < c THEN calls ELSE c
           millis(d) == d.secs * 1000 + d.nanos \div 1000000
           stored(d) == IF millis(d) > 15000 THEN 15000 ELSE millis(d)
       IN  /\ c >= 1
           /\ acc.index \in 0..(c - 1)
           /\ acc.index = calls % c
           /\ acc.filled_size = filled
           /\ DOMAIN acc.batch_sizes = 0..(c - 1)
           /\ DOMAIN acc.batch_durations = 0..(c - 1)
           /\ \A j \in 0..(c - 1) : acc.batch_durations[j] \in 0..15000
           /\ \A i \in (calls - filled + 1)..calls :
                 /\ acc.batch_sizes[(i - 1) % c] = samples[i].batch_size
                 /\ acc.batch_durations[(i - 1) % c] =
                       stored(samples[i].batch_duration)
           /\ \A j \in filled..(c - 1) :
                 acc.batch_sizes[j] = 0 /\ acc.batch_durations[j] = 0

\* a buffer of capacity 2 after three samples: the first was overwritten by
\* the third, whose 15.001 s were stored as 15000 ms
C20_Witness ==
    /\ accumulator # None
    /\ capacity = Some(2)
    /\ Len(samples) = 3
    /\ samples[1].batch_size # samples[3].batch_size
    /\ samples[3].batch_duration = [secs |-> 15, nanos |-> 1000000]
    /\ accumulator[1].index = 1
    /\ accumulator[1].filled_size = 2
    /\ accumulator[1].batch_sizes[0] = samples[3].batch_size
    /\ accumulator[1].batch_durations[0] = 15000

(***************************************************************************)
(* Part 5: the command dispatcher (command_dispatcher.rs).  A string is a  *)
(* sequence of characters; a cursor counts the characters already read.    *)
(* The tree (tree.rs), the reader (string_reader.rs), the context builder  *)
(* and the context chain (context/) are not part of the sources at hand:   *)
(* they follow the specification, sections 3 and 4.6.                      *)
(***************************************************************************)
MaxInputLen == 4          \* every input up to this length is executed

Chars == {"a", "b", "1", " "}
Sources == {"op", "user"}
Root == "root"

\* the nodes that builders make: literal a (executable) with a child literal
\* b redirecting to the root; a childless executable literal b; an integer
\* argument k, for "op" only, with an integer argument below it; an integer
\* argument m with a literal b below it; an integer argument r redirecting
\* to the root
CommandNodes ==
    [lit_a |-> [kind |-> "literal", name |-> << "a" >>,
                children |-> << "a_b" >>, command |-> Some(7),
                redirect |-> None, requirement |-> Sources],
     a_b |->   [kind |-> "literal", name |-> << "b" >>,
                children |-> << >>, command |-> None,
                redirect |-> Some(Root), requirement |-> Sources],
     lit_b |-> [kind |-> "literal", name |-> << "b" >>,
                children |-> << >>, command |-> Some(42),
                redirect |-> None, requirement |-> Sources],
     arg_k |-> [kind |-> "argument", name |-> << "k" >>,
                children |-> << "k_j" >>, command |-> Some(3),
                redirect |-> None, requirement |-> {"op"}],
     k_j |->   [kind |-> "argument", name |-> << "j" >>,
                children |-> << >>, command |-> Some(11),
                redirect |-> None, requirement |-> Sources],
     arg_m |-> [kind |-> "argument", name |-> << "m" >>,
                children |-> << "m_b" >>, command |-> Some(5),
                redirect |-> None, requirement |-> Sources],
     m_b |->   [kind |-> "literal", name |-> << "b" >>,
                children |-> << >>, command |-> Some(9),
                redirect |-> None, requirement |-> Sources],
     arg_r |-> [kind |-> "argument", name |-> << "r" >>,
                children |-> << >>, command |-> None,
                redirect |-> Some(Root), requirement |-> Sources]]

\* the nodes register() can add to the root, in the order the root keeps them
Registrable == << "lit_a", "lit_b", "arg_k", "arg_m", "arg_r" >>

\* the root node of a dispatcher whose registered nodes are reg
RootNode(reg) ==
    [kind |-> "root", name |-> << >>,
     children |-> SelectSeq(Registrable, LAMBDA n : n \in reg),
     command |-> None, redirect |-> None, requirement |-> Sources]

NodeOf(reg, n) == IF n = Root THEN RootNode(reg) ELSE CommandNodes[n]

\* StringReader
StringReader(string) == [string |-> string, cursor |-> 0]
can_read_length(reader, n) == reader.cursor + n <= Len(reader.string)
can_read(reader) == can_read_length(reader, 1)
peek(reader) == reader.string[reader.cursor + 1]
skip(reader) == [reader EXCEPT !.cursor = reader.cursor + 1]
Remaining(reader) ==
    SubSeq(reader.string, reader.cursor + 1, Len(reader.string))

\* name is what the reader reads next
StartsWith(reader, name) ==
    /\ can_read_length(reader, Len(name))
    /\ SubSeq(reader.string, reader.cursor + 1, reader.cursor + Len(name)) = name

RECURSIVE Digits(_)
\* the number of digits the reader reads next
Digits(reader) ==
    IF can_read(reader) /\ peek(reader) = "1"
    THEN 1 + Digits(skip(reader))
    ELSE 0

\* CommandNode::can_use: the requires predicate
can_use(node, src) == src \in node.requirement

\* CommandNode::get_relevant_nodes: the literals that match what the reader
\* reads next come first, the arguments after them
get_relevant_nodes(node, reader) ==
    SelectSeq(node.children,
              LAMBDA c : /\ CommandNodes[c].kind = "literal"
                         /\ StartsWith(reader, CommandNodes[c].name))
    \o SelectSeq(node.children, LAMBDA c : CommandNodes[c].kind = "argument")

\* CommandContextBuilder::new, with_node, with_command, with_child
CommandContextBuilder(src, root, start) ==
    [source |-> src, root |-> root, nodes |-> << >>, command |-> None,
     child |-> None, range |-> [start |-> start, end |-> start]]

with_node(context, n, range) ==
    [context EXCEPT
       !.nodes = Append(context.nodes, [node |-> n, range |-> range]),
       !.range = [start |-> Min(context.range.start, range.start),
                  end |-> IF context.range.end >= range.end
                          THEN context.range.end ELSE range.end]]

with_command(context, cmd) == [context EXCEPT !.command = cmd]
with_child(context, child) == [context EXCEPT !.child = Some(child)]

\* StringRange::is_empty
is_empty(range) == range.start = range.end

\* CommandNode::parse_with_context: a literal reads its name, an integer
\* argument reads digits; on success the node joins the context
parse_with_context(n, reader, context) ==
    LET node == CommandNodes[n]
        len == IF node.kind = "literal" THEN Len(node.name) ELSE Digits(reader)
        ok == IF node.kind = "literal"
              THEN StartsWith(reader, node.name)
              ELSE Digits(reader) > 0
        after == [reader EXCEPT !.cursor = reader.cursor + len]
    IN  IF ok
        THEN [ok |-> TRUE, reader |-> after, message |-> "",
              context |-> with_node(context, n,
                             [start |-> reader.cursor, end |-> after.cursor])]
        ELSE [ok |-> FALSE, reader |-> reader, context |-> context,
              message |-> IF node.kind = "literal"
                          THEN "Expected literal" ELSE "Expected integer"]

\* BuiltInError::..create_with_context(&reader)
DispatcherUnknownCommand(reader) ==
    [type |-> "DispatcherUnknownCommand", message |-> "",
     cursor |-> reader.cursor]
DispatcherUnknownArgument(reader) ==
    [type |-> "DispatcherUnknownArgument", message |-> "",
     cursor |-> reader.cursor]
DispatcherExpectedArgumentSeparator(reader) ==
    [type |-> "DispatcherExpectedArgumentSeparator", message |-> "",
     cursor |-> reader.cursor]
DispatcherParseException(message, reader) ==
    [type |-> "DispatcherParseException", message |-> message,
     cursor |-> reader.cursor]

\* HashMap::new, HashMap::insert on the errors of one parse_nodes call
NoErrors == [n \in {} |-> 0]
\* the mutant: an insert forgets the errors recorded before
Insert_OnlyLast(errors, n, e) == [k \in {n} |-> e]
Insert(errors, n, e) ==
    [k \in DOMAIN errors \cup {n} |-> IF k = n THEN e ELSE errors[k]]

ParseResults(context, reader, exceptions) ==
    [context |-> context, reader |-> reader, exceptions |-> exceptions]

\* the reader a recursive parse_nodes call is given: reader.skip() has moved
\* it past the separator
\* mutant: the recursion is given the reader the caller started with
SkippedReader_Original(original_reader, reader) == original_reader

SkippedReader(original_reader, reader) == skip(reader)

\* mutant: no child is skipped
CannotUse_Never(n, src) == FALSE

\* !child.read().can_use(&source): the child is skipped
CannotUse(n, src) == ~can_use(CommandNodes[n], src)

\* potentials.sort_by(..) compares two potentials: "Less" puts a first
\* mutant: remaining input is preferred
Compare_Reversed(a, b) ==
    IF can_read(a.reader) /\ ~can_read(b.reader) THEN "Less"
    ELSE IF ~can_read(a.reader) /\ can_read(b.reader) THEN "Greater"
    ELSE "Equal"

Compare(a, b) ==
    IF ~can_read(a.reader) /\ can_read(b.reader) THEN "Less"
    ELSE IF can_read(a.reader) /\ ~can_read(b.reader) THEN "Greater"
    ELSE IF a.exceptions = NoErrors /\ b.exceptions # NoErrors THEN "Less"
    ELSE IF a.exceptions # NoErrors /\ b.exceptions = NoErrors THEN "Greater"
    ELSE "Equal"

RECURSIVE InsertSorted(_, _)
\* p put into the sorted sequence s after everything that is not Greater
InsertSorted(s, p) ==
    IF s = << >> THEN << p >>
    ELSE LET last == s[Len(s)]
         IN  IF Compare(last, p) = "Greater"
             THEN Append(InsertSorted(SubSeq(s, 1, Len(s) - 1), p), last)
             ELSE Append(s, p)

RECURSIVE SortBy(_)
\* Vec::sort_by with Compare: a stable sort
SortBy(s) ==
    IF s = << >> THEN << >>
    ELSE InsertSorted(SortBy(SubSeq(s, 1, Len(s) - 1)), s[Len(s)])

\* lines 147-173: the best potential if there is one, else the context so
\* far with the errors
Finish(original_reader, context_so_far, errors, potentials) ==
    IF potentials # << >>
    THEN (IF Len(potentials) > 1 THEN SortBy(potentials) ELSE potentials)[1]
    ELSE ParseResults(context_so_far, original_reader, errors)

\* mutant: the redirected parse is not chained onto the context
Redirected_NoChild(context, inner) ==
    ParseResults(context, inner.reader, inner.exceptions)

\* lines 124-129: what parse_nodes returns once a redirect was followed
Redirected(context, inner) ==
    ParseResults(with_child(context, inner.context), inner.reader,
                 inner.exceptions)

\* the mutant: a node none of whose children parsed is an error
ReturnsOk_ErrWhenNothingParsed(potentials, errors) == potentials # << >>

\* lines 165 and 169: parse_nodes returns Ok(..) with or without potentials
ReturnsOk(potentials, errors) == TRUE

\* what parse_nodes has done so far: the recursive calls made (the cursor of
\* the caller, the cursor of the call, its depth), the children parsed, what
\* became of each of them, and whether an expect() met an Err
NoLog == [calls |-> {}, tried |-> {}, steps |-> {}, panicked |-> FALSE]

Step(log, child, depth, from, at, outcome) ==
    [log EXCEPT !.tried = log.tried \cup {child},
                !.steps = log.steps \cup
                   {[child |-> child, depth |-> depth, from |-> from,
                     at |-> at, outcome |-> outcome]}]

\* .expect("Parsing nodes failed") on a recursive result
Expect(log, inner, from, depth) ==
    [calls |-> log.calls \cup inner.log.calls
                  \cup {[from |-> from, to |-> inner.start, depth |-> depth + 1]},
     tried |-> log.tried \cup inner.log.tried,
     steps |-> log.steps \cup inner.log.steps,
     panicked |-> log.panicked \/ inner.log.panicked \/ ~inner.ok]

RECURSIVE parse_nodes(_, _, _, _, _)
RECURSIVE ForChildren(_, _, _, _, _, _, _, _)
\* the loop of parse_nodes over the relevant children still to try.  The
\* value is the Result returned (ok, and the ParseResults as parse), with
\* the cursor the call started at, the potentials collected, whether the
\* return was the one of the redirect branch, and the log.
ForChildren(reg, todo, original_reader, context_so_far, errors, potentials, log, depth) ==
    IF todo = << >>
    THEN [ok |-> ReturnsOk(potentials, errors),
          parse |-> Finish(original_reader, context_so_far, errors, potentials),
          start |-> original_reader.cursor,
          potentials |-> potentials,
          redirected |-> FALSE,
          log |-> log]
    ELSE
    LET child == Head(todo)
        src == context_so_far.source
        cursor == original_reader.cursor
        attempt == parse_with_context(child, original_reader, context_so_far)
        reader == attempt.reader
        context == with_command(attempt.context, CommandNodes[child].command)
        redirect == CommandNodes[child].redirect
        next == SkippedReader(original_reader, reader)
    IN  IF CannotUse(child, src)
        THEN ForChildren(reg, Tail(todo), original_reader, context_so_far,
                         errors, potentials, log, depth)
        ELSE IF ~attempt.ok
        THEN ForChildren(reg, Tail(todo), original_reader, context_so_far,
                 Insert(errors, child,
                        DispatcherParseException(attempt.message, reader)),
                 potentials,
                 Step(log, child, depth, cursor, reader.cursor, "failed"),
                 depth)
        ELSE IF can_read(reader) /\ peek(reader) # " "
        THEN ForChildren(reg, Tail(todo), original_reader, context_so_far,
                 Insert(errors, child,
                        DispatcherExpectedArgumentSeparator(reader)),
                 potentials,
                 Step(log, child, depth, cursor, reader.cursor, "separator"),
                 depth)
        ELSE IF can_read_length(reader, IF redirect = None THEN 2 ELSE 1)
        THEN IF redirect # None
             THEN LET child_context ==
                          CommandContextBuilder(src, redirect[1], next.cursor)
                      inner == parse_nodes(reg, redirect[1], next,
                                           child_context, depth + 1)
                  IN  [ok |-> TRUE,
                       parse |-> Redirected(context, inner.parse),
                       start |-> cursor,
                       potentials |-> potentials,
                       redirected |-> TRUE,
                       log |-> Expect(Step(log, child, depth, cursor,
                                           reader.cursor, "redirected"),
                                      inner, cursor, depth)]
             ELSE LET inner == parse_nodes(reg, child, next, context, depth + 1)
                  IN  ForChildren(reg, Tail(todo), original_reader,
                         context_so_far, errors,
                         Append(potentials, inner.parse),
                         Expect(Step(log, child, depth, cursor, reader.cursor,
                                     "recursed"),
                                inner, cursor, depth),
                         depth)
        ELSE ForChildren(reg, Tail(todo), original_reader, context_so_far,
                 errors,
                 Append(potentials, ParseResults(context, reader, NoErrors)),
                 Step(log, child, depth, cursor, reader.cursor, "pushed"),
                 depth)

\* CommandDispatcher::parse_nodes.  A call deeper than the input is long is
\* not followed.
parse_nodes(reg, n, original_reader, context_so_far, depth) ==
    IF depth > Len(original_reader.string) + 1
    THEN [ok |-> TRUE,
          parse |-> ParseResults(context_so_far, original_reader, NoErrors),
          start |-> original_reader.cursor,
          potentials |-> << >>,
          redirected |-> FALSE,
          log |-> NoLog]
    ELSE ForChildren(reg,
                     get_relevant_nodes(NodeOf(reg, n), original_reader),
                     original_reader, context_so_far, NoErrors, << >>,
                     NoLog, depth)

\* CommandDispatcher::parse
parse(reg, string, src) ==
    LET done == parse_nodes(reg, Root, StringReader(string),
                            CommandContextBuilder(src, Root, 0), 0)
    IN  [done EXCEPT !.log.panicked = done.log.panicked \/ ~done.ok]

\* Result<i32, CommandSyntaxError>
Ok(value) == [ok |-> TRUE, value |-> value]
Err(error) == [ok |-> FALSE, error |-> error]

RECURSIVE try_flatten(_)
\* ContextChain::try_flatten: the contexts of the chain in order, if the last
\* one has a command to run
try_flatten(context) ==
    IF context.child = None
    THEN IF context.command = None THEN None ELSE Some(<< context >>)
    ELSE LET rest == try_flatten(context.child[1])
         IN  IF rest = None THEN None ELSE Some(<< context >> \o rest[1])

\* ContextChain::execute_all: the source is passed through the redirects and
\* the last context's command runs; its value is the result
execute_all(flat) ==
    [result |-> Ok(flat[Len(flat)].command[1]),
     ran |-> << flat[Len(flat)].command[1] >>]

\* the values of a hash map, any of which its iteration may yield first
Values(exceptions) == {exceptions[k] : k \in DOMAIN exceptions}

\* mutant: input left unread is not looked at
execute_parsed_NoRemainderCheck(results, first) ==
    LET flat_context == try_flatten(results.context)
    IN  IF flat_context = None
        THEN [result |-> Err(DispatcherUnknownCommand(results.reader)),
              ran |-> << >>]
        ELSE execute_all(flat_context[1])

\* mutant: the context's range is not looked at
execute_parsed_RangeIgnored(results, first) ==
    LET flat_context == try_flatten(results.context)
    IN  IF can_read(results.reader)
        THEN [result |->
                Err(IF Cardinality(DOMAIN results.exceptions) = 1 THEN first
                    ELSE DispatcherUnknownArgument(results.reader)),
              ran |-> << >>]
        ELSE IF flat_context = None
        THEN [result |-> Err(DispatcherUnknownCommand(results.reader)),
              ran |-> << >>]
        ELSE execute_all(flat_context[1])

\* mutant: the first recorded exception is returned when there are several
execute_parsed_FirstException(results, first) ==
    LET flat_context == try_flatten(results.context)
    IN  IF can_read(results.reader)
        THEN [result |->
                Err(IF Cardinality(DOMAIN results.exceptions) >= 1 THEN first
                    ELSE IF is_empty(results.context.range)
                    THEN DispatcherUnknownCommand(results.reader)
                    ELSE DispatcherUnknownArgument(results.reader)),
              ran |-> << >>]
        ELSE IF flat_context = None
        THEN [result |-> Err(DispatcherUnknownCommand(results.reader)),
              ran |-> << >>]
        ELSE execute_all(flat_context[1])

\* CommandDispatcher::execute_parsed: its result and the commands it ran;
\* first is what results.exceptions.values().next() yields
execute_parsed(results, first) ==
    LET flat_context == try_flatten(results.context)
    IN  IF can_read(results.reader)
        THEN [result |->
                Err(IF Cardinality(DOMAIN results.exceptions) = 1 THEN first
                    ELSE IF is_empty(results.context.range)
                    THEN DispatcherUnknownCommand(results.reader)
                    ELSE DispatcherUnknownArgument(results.reader)),
              ran |-> << >>]
        ELSE IF flat_context = None
        THEN [result |-> Err(DispatcherUnknownCommand(results.reader)),
              ran |-> << >>]
        ELSE execute_all(flat_context[1])

RECURSIVE Strings(_)
\* the strings of length n
Strings(n) ==
    IF n = 0 THEN {<< >>}
    ELSE {Append(s, c) : s \in Strings(n - 1), c \in Chars}

\* the inputs executed: every short string, and three longer commands
Inputs ==
    UNION {Strings(n) : n \in 0..MaxInputLen}
    \cup {<< "a", " ", "b", " ", "a" >>,
          << "a", " ", "b", " ", "a", " ", "b" >>,
          << "1", " ", "a", " ", "b", " ", "a" >>}

\* what the iteration of exceptions may yield first
FirstValues(exceptions) ==
    IF exceptions = NoErrors THEN {None} ELSE Values(exceptions)

\* CommandDispatcher::register; the tree is built before a command is run
register ==
    /\ executed = None
    /\ \E n \in {Registrable[i] : i \in DOMAIN Registrable} \ registered :
          registered' = registered \cup {n}
    /\ UNCHANGED << command, source, parsed, executed, again >>
    /\ UNCHANGED notDispatch

\* CommandDispatcher::execute; the dispatcher keeps nothing from one execute
\* to the next, so one is followed
execute ==
    /\ executed = None
    /\ \E input \in Inputs, src \in Sources :
          LET done == parse(registered, input, src)
          IN  /\ command' = input
              /\ source' = src
              /\ parsed' = Some(done)
              /\ \E first \in FirstValues(done.parse.exceptions) :
                    executed' = Some(execute_parsed(done.parse, first))
    /\ again' = None
    /\ UNCHANGED registered
    /\ UNCHANGED notDispatch

\* CommandDispatcher::execute once more, on the same tree, input and source
ExecuteAgain ==
    /\ executed # None
    /\ again = None
    /\ LET done == parse(registered, command, source)
       IN  \E first \in FirstValues(done.parse.exceptions) :
              again' = Some(execute_parsed(done.parse, first))
    /\ UNCHANGED << registered, command, source, parsed, executed >>
    /\ UNCHANGED notDispatch

DispatchNext == register \/ execute \/ ExecuteAgain

SpecDispatch == RunnerInit /\ [][DispatchNext]_vars

(***************************************************************************)
(* Properties of the command dispatcher.                                   *)
(***************************************************************************)
Executed == executed # None

A_B_A == << "a", " ", "b", " ", "a" >>
A_B_A_B == << "a", " ", "b", " ", "a", " ", "b" >>

\* the reader of the parse has input left
Unread(results) == results.reader.cursor < Len(results.reader.string)

\* C21: with the childless literal b, whose action returns 42, as the only
\* registered node: executing "b" returns 42; executing "b", a space and
\* another word returns UnknownArgument; executing "" returns UnknownCommand.
C21_LiteralDispatch ==
    (Executed /\ registered = {"lit_b"}) =>
       /\ command = << "b" >> =>
             executed[1] = [result |-> [ok |-> TRUE, value |-> 42],
                            ran |-> << 42 >>]
       /\ (/\ Len(command) >= 3
           /\ SubSeq(command, 1, 2) = << "b", " " >>
           /\ \A i \in 3..Len(command) : command[i] # " ") =>
             /\ ~executed[1].result.ok
             /\ executed[1].result.error.type = "DispatcherUnknownArgument"
       /\ command = << >> =>
             /\ ~executed[1].result.ok
             /\ executed[1].result.error.type = "DispatcherUnknownCommand"

\* "b a" was executed on that dispatcher
C21_Witness ==
    /\ Executed
    /\ registered = {"lit_b"}
    /\ command = << "b", " ", "a" >>
    /\ executed[1].result =
          [ok |-> FALSE,
           error |-> [type |-> "DispatcherUnknownArgument", message |-> "",
                      cursor |-> 2]]

\* C22: when the parse has input left unread, execute_parsed runs no action
\* and returns the recorded exception if exactly one was recorded, else
\* UnknownCommand if the context's range is empty, else UnknownArgument.
C22_UnreadInputFails ==
    (Executed /\ Unread(parsed[1].parse)) =>
       LET results == parsed[1].parse
           keys == DOMAIN results.exceptions
           at == results.reader.cursor
       IN  /\ executed[1].ran = << >>
           /\ ~executed[1].result.ok
           /\ Cardinality(keys) = 1 =>
                 \A k \in keys : executed[1].result.error = results.exceptions[k]
           /\ (Cardinality(keys) # 1
               /\ results.context.range.start = results.context.range.end) =>
                 executed[1].result.error =
                    [type |-> "DispatcherUnknownCommand", message |-> "",
                     cursor |-> at]
           /\ (Cardinality(keys) # 1
               /\ results.context.range.start # results.context.range.end) =>
                 executed[1].result.error =
                    [type |-> "DispatcherUnknownArgument", message |-> "",
                     cursor |-> at]

\* one exception was recorded, and it is what execute returned
C22_Witness ==
    /\ Executed
    /\ Unread(parsed[1].parse)
    /\ DOMAIN parsed[1].parse.exceptions = {"lit_b"}
    /\ executed[1].result.error.type = "DispatcherExpectedArgumentSeparator"

\* the tie-break order: input fully consumed first, then no exceptions
Rank(p) ==
    (IF Unread(p) THEN 2 ELSE 0) + (IF DOMAIN p.exceptions # {} THEN 1 ELSE 0)

\* the first of the potentials that none of them beats
FirstBest(potentials) ==
    LET best == CHOOSE i \in DOMAIN potentials :
                   /\ \A j \in DOMAIN potentials :
                         Rank(potentials[i]) <= Rank(potentials[j])
                   /\ \A j \in 1..(i - 1) :
                         Rank(potentials[j]) > Rank(potentials[i])
    IN  potentials[best]

\* C23 as stated: whenever a child of the root produced a potential, what
\* parse_nodes returns for the root is beaten by no potential of the root's
\* children, and is the earliest of the equally ranked ones.
C23_NoBetterSibling ==
    (Executed /\ parsed[1].potentials # << >>) =>
       /\ \A i \in DOMAIN parsed[1].potentials :
             Rank(parsed[1].potentials[i]) >= Rank(parsed[1].parse)
       /\ (\E i \in DOMAIN parsed[1].potentials :
              parsed[1].potentials[i] = parsed[1].parse) =>
             parsed[1].parse = FirstBest(parsed[1].potentials)

\* C23, amended: whenever a child of the root produced a potential and
\* parse_nodes did not return through a child with a redirect, what it
\* returns is the first of the potentials that no potential beats.
C23_NoBetterSiblingUnlessRedirected ==
    (Executed /\ parsed[1].potentials # << >> /\ ~parsed[1].redirected) =>
       /\ \A i \in DOMAIN parsed[1].potentials :
             Rank(parsed[1].potentials[i]) >= Rank(parsed[1].parse)
       /\ parsed[1].parse = FirstBest(parsed[1].potentials)

\* the second potential consumed the input, the first did not: the second
\* was chosen
C23_Witness ==
    /\ Executed
    /\ ~parsed[1].redirected
    /\ Len(parsed[1].potentials) = 2
    /\ Rank(parsed[1].potentials[1]) > Rank(parsed[1].potentials[2])
    /\ parsed[1].parse = parsed[1].potentials[2]

\* C24: running execute again on the same tree, input and source returns
\* the same result, whatever the hash map of exceptions yields first.
C24_Deterministic ==
    again # None => again = executed

\* two different exceptions were recorded, and both runs returned the same
C24_Witness ==
    /\ again # None
    /\ Cardinality(Values(parsed[1].parse.exceptions)) >= 2
    /\ again[1].result = executed[1].result

\* C25 as stated: with literal a (executable) and its child b redirecting to
\* the root, executing "a b a b" succeeds.
C25_RedirectChainSucceeds ==
    (Executed /\ "lit_a" \in registered /\ command = A_B_A_B) =>
       executed[1].result.ok

\* C25, amended: with that tree, executing "a b a" succeeds with the value of
\* a's action, and executing "a b a b" reads the whole input and returns
\* UnknownCommand without running an action, because the last node matched,
\* b, has no action.
C25_RedirectChainEndsOnExecutable ==
    (Executed /\ "lit_a" \in registered) =>
       /\ command = A_B_A =>
             executed[1] = [result |-> [ok |-> TRUE, value |-> 7],
                            ran |-> << 7 >>]
       /\ command = A_B_A_B =>
             /\ ~Unread(parsed[1].parse)
             /\ executed[1] =
                   [result |->
                      [ok |-> FALSE,
                       error |-> [type |-> "DispatcherUnknownCommand",
                                  message |-> "", cursor |-> 7]],
                    ran |-> << >>]

\* "a b a" was executed: the redirect was followed and a's action ran
C25_Witness ==
    /\ Executed
    /\ registered = {"lit_a"}
    /\ command = A_B_A
    /\ \E c \in parsed[1].log.calls : c.depth = 2 /\ c.to = 4
    /\ parsed[1].parse.context.child # None
    /\ executed[1].result = [ok |-> TRUE, value |-> 7]

\* C26: parse returns for every input, redirects to the root included: every
\* recursive parse_nodes call starts at a cursor greater than its caller's,
\* and no call is deeper than the input is long.
C26_RecursionConsumesInput ==
    Executed =>
       \A c \in parsed[1].log.calls :
          /\ c.to > c.from
          /\ c.to <= Len(command)
          /\ c.depth <= c.to
          /\ c.depth <= Len(command)

\* the redirect to the root was followed twice
C26_Witness ==
    /\ Executed
    /\ command = << "1", " ", "a", " ", "b", " ", "a" >>
    /\ {"lit_a", "arg_r"} \subseteq registered
    /\ \E c \in parsed[1].log.calls : c.depth = 3 /\ c.to = 6

RECURSIVE ChainNodes(_)
\* the nodes of a context and of its child contexts
ChainNodes(context) ==
    {context.nodes[i].node : i \in DOMAIN context.nodes}
    \cup (IF context.child = None THEN {} ELSE ChainNodes(context.child[1]))

\* C30: a child whose requires predicate is false for the source is not
\* parsed: it is in no context, behind no potential and has no entry in the
\* exceptions of the parse.
C30_RequiresSkipsChild ==
    Executed =>
       \A n \in DOMAIN CommandNodes :
          source \notin CommandNodes[n].requirement =>
             /\ n \notin parsed[1].log.tried
             /\ n \notin ChainNodes(parsed[1].parse.context)
             /\ n \notin DOMAIN parsed[1].parse.exceptions
             /\ \A i \in DOMAIN parsed[1].potentials :
                   /\ n \notin ChainNodes(parsed[1].potentials[i].context)
                   /\ n \notin DOMAIN parsed[1].potentials[i].exceptions

\* k is registered but not for this source: of k and m only m failed on "a"
C30_Witness ==
    /\ Executed
    /\ source = "user"
    /\ {"arg_k", "arg_m"} \subseteq registered
    /\ command = << "a" >>
    /\ "arg_m" \in DOMAIN parsed[1].parse.exceptions
    /\ "arg_k" \notin DOMAIN parsed[1].parse.exceptions

\* what the call on the root did with the root's children
RootSteps == {s \in parsed[1].log.steps : s.depth = 0}

\* the characters of the command a root child reads: its name for a literal,
\* the leading digits for an integer argument; 0 when it cannot be parsed
ReadBy(n) ==
    IF CommandNodes[n].kind = "literal"
    THEN IF /\ Len(command) >= Len(CommandNodes[n].name)
            /\ SubSeq(command, 1, Len(CommandNodes[n].name)) = CommandNodes[n].name
         THEN Len(CommandNodes[n].name) ELSE 0
    ELSE IF \E i \in 0..Len(command) :
               /\ \A j \in 1..i : command[j] = "1"
               /\ i > 0
         THEN CHOOSE i \in 1..Len(command) :
                 /\ \A j \in 1..i : command[j] = "1"
                 /\ (i = Len(command) \/ command[i + 1] # "1")
         ELSE 0

LeftAfter(s) == Len(command) - s.at

\* C32 as stated: a child that parsed with input remaining after it is
\* recursed into past the space; a potential is recorded without recursion
\* only when no input remains.
C32_PotentialOnlyAtEndOfInput ==
    Executed =>
       \A s \in parsed[1].log.steps :
          /\ (s.outcome \in {"recursed", "redirected", "pushed"}
              /\ LeftAfter(s) > 0) => s.outcome # "pushed"
          /\ s.outcome = "pushed" => LeftAfter(s) = 0

\* C32, amended: a child that parsed with at least two characters remaining
\* after it (one, the space, is enough when the child has a redirect) is
\* recursed into, at the cursor past the space; a potential is recorded
\* without recursion when no input remains, or when only a single trailing
\* space remains after a child without a redirect.
C32_PotentialAtEndOrTrailingSpace ==
    Executed =>
       \A s \in parsed[1].log.steps :
          LET needed == IF CommandNodes[s.child].redirect = << >> THEN 2 ELSE 1
          IN  /\ s.outcome \in {"recursed", "redirected"} =>
                    /\ LeftAfter(s) >= needed
                    /\ command[s.at + 1] = " "
                    /\ \E c \in parsed[1].log.calls :
                          /\ c.from = s.from
                          /\ c.to = s.at + 1
                          /\ c.depth = s.depth + 1
              /\ s.outcome = "pushed" =>
                    /\ LeftAfter(s) < needed
                    /\ LeftAfter(s) = 1 => command[s.at + 1] = " "
              /\ (s.outcome \in {"recursed", "redirected", "pushed"}
                  /\ LeftAfter(s) >= needed) => s.outcome # "pushed"

\* "1 1 ": k is recursed into past the first space, and its child j, with
\* only the trailing space left, is recorded as a potential
C32_Witness ==
    /\ Executed
    /\ command = << "1", " ", "1", " " >>
    /\ [child |-> "arg_k", depth |-> 0, from |-> 0, at |-> 1,
        outcome |-> "recursed"] \in parsed[1].log.steps
    /\ [child |-> "k_j", depth |-> 1, from |-> 2, at |-> 3,
        outcome |-> "pushed"] \in parsed[1].log.steps

\* the position of a node among the children of the root
RootIndex(n) == CHOOSE i \in DOMAIN Registrable : Registrable[i] = n

\* C33: when a child of the root with a redirect has parsed and input
\* remains, parse_nodes returns at once the parse of the remainder at the
\* redirect target, in a fresh child context chained onto the child's: the
\* siblings after the child are not tried and the potentials of the siblings
\* before it are not what is returned.
C33_RedirectReturnsEagerly ==
    Executed =>
       /\ parsed[1].redirected <=> \E s \in RootSteps : s.outcome = "redirected"
       /\ \A s \in RootSteps :
             s.outcome = "redirected" =>
                LET returned == parsed[1].parse
                    chained == returned.context.child
                IN  /\ LeftAfter(s) >= 1
                    /\ chained # << >>
                    /\ chained[1].root = CommandNodes[s.child].redirect[1]
                    /\ chained[1].source = source
                    /\ chained[1].range.start = s.at + 1
                    /\ returned.context.nodes =
                          << [node |-> s.child,
                              range |-> [start |-> 0, end |-> s.at]] >>
                    /\ returned.reader.cursor >= s.at + 1
                    /\ \A later \in RootSteps :
                          RootIndex(later.child) <= RootIndex(s.child)
                    /\ \A i \in DOMAIN parsed[1].potentials :
                          parsed[1].potentials[i] # returned

\* on "1 b" m, tried before r, gave a potential that read everything; r's
\* redirect was returned all the same, and nothing after r was tried
C33_Witness ==
    /\ Executed
    /\ registered = {"lit_b", "arg_m", "arg_r"}
    /\ command = << "1", " ", "b" >>
    /\ parsed[1].redirected
    /\ Len(parsed[1].potentials) = 1
    /\ parsed[1].potentials[1].reader.cursor = 3
    /\ parsed[1].parse.context.child # << >>

\* C36: no parse_nodes call returns Err: neither the unwrap in parse nor an
\* expect on a recursive result meets one, whatever the tree, the input and
\* the source.
C36_ParseNodesAlwaysOk ==
    Executed => parsed[1].ok /\ ~parsed[1].log.panicked

\* "1 a b a": three nested calls, two of them through redirects to the root,
\* with a child that failed below the first
C36_Witness ==
    /\ Executed
    /\ parsed[1].ok
    /\ command = << "1", " ", "a", " ", "b", " ", "a" >>
    /\ \E c \in parsed[1].log.calls : c.depth = 3
    /\ \E s \in parsed[1].log.steps : s.outcome = "failed" /\ s.depth = 1

(***************************************************************************)
(* Part 6: impl From<SerializableGameProfile> for GameProfile.             *)
(***************************************************************************)
MaxProperties == 2        \* properties listed in a SerializableGameProfile

\* the values converted: id, name and a list of properties
SerializableGameProfiles ==
    LET SerializableProfilePropertyValues ==
            [name : {"qwer", "uiop"},
             value : {"asdf", "hjkl"},
             signature : {None, Some("zxcv")}]
    IN  [id : {"f1a2b3c4", "00000000"},
         name : {"Notch"},
         properties : UNION {[1..n -> SerializableProfilePropertyValues] :
                               n \in 0..MaxProperties}]

\* the mutant: an entry already in the map is kept
HashMapInsert_KeepFirst(map, k, v) ==
    [x \in DOMAIN map \cup {k} |-> IF x \in DOMAIN map THEN map[x] ELSE v]

\* HashMap::insert: the entry of the key is the value given
HashMapInsert(map, k, v) ==
    [x \in DOMAIN map \cup {k} |-> IF x = k THEN v ELSE map[x]]

RECURSIVE Properties(_, _)
\* for value in value.properties { properties.insert(value.name, ..) }
Properties(list, map) ==
    IF list = << >>
    THEN map
    ELSE Properties(Tail(list),
                    HashMapInsert(map, Head(list).name,
                                  [value |-> Head(list).value,
                                   signature |-> Head(list).signature]))

\* GameProfile::from(value)
GameProfileFrom(v) ==
    [uuid |-> v.id,
     name |-> v.name,
     properties |-> Properties(v.properties, [x \in {} |-> 0])]

\* a SerializableGameProfile is converted
From ==
    /\ converted = None
    /\ \E v \in SerializableGameProfiles :
          /\ serialized' = Some(v)
          /\ converted' = Some(GameProfileFrom(v))
    /\ UNCHANGED notProfile

SpecProfile == RunnerInit /\ [][From]_vars

\* C27: the GameProfile converted from a SerializableGameProfile has its id
\* as uuid, its name, and a properties map whose keys are the names listed
\* and whose entry for a name is the value and signature of the last listed
\* property of that name.
C27_ConversionKeepsProfile ==
    converted # None =>
       LET v == serialized[1]
           p == converted[1]
           listed == v.properties
       IN  /\ p.uuid = v.id
           /\ p.name = v.name
           /\ DOMAIN p.properties = {listed[i].name : i \in DOMAIN listed}
           /\ \A i \in DOMAIN listed :
                 (\A j \in DOMAIN listed : j > i => listed[j].name # listed[i].name)
                    => p.properties[listed[i].name] =
                          [value |-> listed[i].value,
                           signature |-> listed[i].signature]

\* "qwer" was listed twice with different values: the second is in the map
C27_Witness ==
    /\ converted # None
    /\ Len(serialized[1].properties) = 2
    /\ serialized[1].properties[1] =
          [name |-> "qwer", value |-> "hjkl", signature |-> None]
    /\ serialized[1].properties[2] =
          [name |-> "qwer", value |-> "asdf", signature |-> Some("zxcv")]
    /\ DOMAIN converted[1].properties = {"qwer"}
    /\ converted[1].properties["qwer"] =
          [value |-> "asdf", signature |-> Some("zxcv")]

(***************************************************************************)
(* Part 7: Client::set_client_information.  The function takes the ECS     *)
(* mutex three times: to store the component, in logged_in() and in        *)
(* write_packet(); other holders of the mutex run in between.              *)
(***************************************************************************)
\* the information given to set_client_information
ClientInformations == {[view_distance |-> 2], [view_distance |-> 4]}

ServerboundClientInformation(information) ==
    [type |-> "ClientInformation", information |-> information]

\* the login packet inserts InstanceName; leaving the world removes it
InstanceNameChanges ==
    /\ instanceName' = ~instanceName
    /\ UNCHANGED << clientInformation, sentPackets, infoCall >>
    /\ UNCHANGED notInfo

\* { let mut ecs = self.ecs.lock(); *client_information_mut = .. }
set_client_information ==
    /\ \E c \in Callers, information \in ClientInformations :
          /\ infoCall[c].pc = "idle"
          /\ clientInformation' = information
          /\ infoCall' = [infoCall EXCEPT ![c].pc = "stored",
                                          ![c].information = information,
                                          ![c].stored_in_game =
                                             Some(instanceName)]
    /\ UNCHANGED << instanceName, sentPackets >>
    /\ UNCHANGED notInfo

\* the mutant: the packet is sent whether logged in or not
ShouldSend_Always(c) == TRUE

\* self.query::<Option<&InstanceName>>(&mut self.ecs.lock()).is_some()
ShouldSend(c) == instanceName

\* if self.logged_in() { .. } Ok(())
logged_in ==
    /\ \E c \in Callers :
          /\ infoCall[c].pc = "stored"
          /\ infoCall' =
                [infoCall EXCEPT
                   ![c].logged_in = Some(instanceName),
                   ![c].pc = IF ShouldSend(c) THEN "sending" ELSE "done",
                   ![c].result = IF ShouldSend(c) THEN None ELSE Some("Ok")]
    /\ UNCHANGED << instanceName, clientInformation, sentPackets >>
    /\ UNCHANGED notInfo

\* self.write_packet(ServerboundClientInformation { information })?; the
\* raw connection takes the packet or returns a WritePacketError
write_packet ==
    /\ \E c \in Callers, res \in {"Ok", "WritePacketError"} :
          /\ infoCall[c].pc = "sending"
          /\ sentPackets' =
                Append(sentPackets,
                       [packet |-> ServerboundClientInformation(
                                      infoCall[c].information),
                        by |-> c, res |-> res])
          /\ infoCall' = [infoCall EXCEPT ![c].pc = "done",
                                          ![c].result = Some(res)]
    /\ UNCHANGED << instanceName, clientInformation >>
    /\ UNCHANGED notInfo

InfoNext ==
    \/ InstanceNameChanges
    \/ set_client_information
    \/ logged_in
    \/ write_packet

SpecInfo == RunnerInit /\ [][InfoNext]_vars

\* C28: set_client_information stores the information given in the
\* ClientInformation component, and hands a ServerboundClientInformation
\* packet with that information to write_packet if and only if the entity has
\* an InstanceName component when logged_in() is evaluated; no other step
\* writes a packet.
C28_StoresAndSendsIfLoggedIn ==
    [][/\ \A c \in Callers :
            LET before == infoCall[c]
                after == infoCall'[c]
            IN  /\ (before.pc = "idle" /\ after.pc # "idle") =>
                      /\ clientInformation' = after.information
                      /\ sentPackets' = sentPackets
                /\ (before.pc = "stored" /\ after.pc # "stored") =>
                      /\ sentPackets' = sentPackets
                      /\ clientInformation' = clientInformation
                      /\ instanceName => after.pc = "sending"
                      /\ ~instanceName => after.pc = "done"
                /\ (before.pc = "sending" /\ after.pc # "sending") =>
                      /\ after.pc = "done"
                      /\ Len(sentPackets') = Len(sentPackets) + 1
                      /\ SubSeq(sentPackets', 1, Len(sentPackets)) = sentPackets
                      /\ sentPackets'[Len(sentPackets')].packet =
                            [type |-> "ClientInformation",
                             information |-> before.information]
       /\ sentPackets' # sentPackets =>
             \E c \in Callers :
                infoCall[c].pc = "sending" /\ infoCall'[c].pc = "done"]_vars

\* both cases: one call found the client logged in and wrote its packet, the
\* other did not and wrote none
C28_Witness ==
    /\ infoCall["first"].pc = "done"
    /\ infoCall["first"].logged_in = Some(TRUE)
    /\ infoCall["second"].pc = "done"
    /\ infoCall["second"].logged_in = Some(FALSE)
    /\ Len(sentPackets) = 1
    /\ sentPackets[1].by = "first"
    /\ sentPackets[1].packet.information = infoCall["first"].information
    /\ clientInformation = infoCall["second"].information

\* C40 as stated: when two set_client_information calls made while the client
\* is logged in have both completed and both packets were written, the
\* ClientInformation component holds the information of the packet written
\* last.
C40_LastWrittenIsStored ==
    (/\ instanceName
     /\ \A c \in Callers :
           /\ infoCall[c].pc = "done"
           /\ infoCall[c].stored_in_game = << TRUE >>
           /\ infoCall[c].logged_in = << TRUE >>
           /\ infoCall[c].result = << "Ok" >>
     /\ Len(sentPackets) = 2) =>
       clientInformation = sentPackets[2].packet.information

(***************************************************************************)
(* Part 8: the ECS mutex in Client::start_client and Client::handshake.    *)
(* Each position is a lock() of the mutex, the drop of its guard, or an    *)
(* await; next is where the call goes from there.  "err" is a return       *)
(* through ?, "ok" the return of Ok(client).                               *)
(***************************************************************************)
\* the mutant: the guard of the first lock() lives until the connection is
\* made
JoinSteps_LockAcrossConnect ==
    [start |-> [kind |-> "lock", next |-> {"connect"}],
     entity |-> [kind |-> "unlock", next |-> {"intention"}],
     connect |-> [kind |-> "await", next |-> {"entity", "err"}],
     intention |-> [kind |-> "await", next |-> {"login_lock", "err"}],
     login_lock |-> [kind |-> "lock", next |-> {"login_insert"}],
     login_insert |-> [kind |-> "unlock", next |-> {"hello"}],
     hello |-> [kind |-> "await", next |-> {"select", "err"}],
     select |-> [kind |-> "await", next |-> {"event_lock", "queued", "err"}],
     queued |-> [kind |-> "await", next |-> {"select", "err"}],
     event_lock |-> [kind |-> "lock", next |-> {"event"}],
     event |-> [kind |-> "unlock",
                next |-> {"authenticate", "key", "select", "ack", "cookie",
                          "err"}],
     authenticate |-> [kind |-> "await", next |-> {"key", "refresh", "err"}],
     refresh |-> [kind |-> "await", next |-> {"authenticate", "err"}],
     key |-> [kind |-> "await", next |-> {"select", "err"}],
     ack |-> [kind |-> "await", next |-> {"remove_lock", "err"}],
     cookie |-> [kind |-> "await", next |-> {"select", "err"}],
     remove_lock |-> [kind |-> "lock", next |-> {"remove"}],
     remove |-> [kind |-> "unlock", next |-> {"bundle_lock"}],
     bundle_lock |-> [kind |-> "lock", next |-> {"bundle"}],
     bundle |-> [kind |-> "unlock", next |-> {"ok"}],
     ok |-> [kind |-> "return", next |-> {}],
     err |-> [kind |-> "return", next |-> {}]]

JoinSteps ==
    [\* start_client: let entity = { let mut ecs = ecs_lock.lock(); .. };
     start |-> [kind |-> "lock", next |-> {"entity"}],
     entity |-> [kind |-> "unlock", next |-> {"connect"}],
     \* Connection::new(resolved_address).await?
     connect |-> [kind |-> "await", next |-> {"intention", "err"}],
     \* handshake: conn.write(ServerboundIntention {..}).await?
     intention |-> [kind |-> "await", next |-> {"login_lock", "err"}],
     \* ecs_lock.lock().entity_mut(entity).insert((..));
     login_lock |-> [kind |-> "lock", next |-> {"login_insert"}],
     login_insert |-> [kind |-> "unlock", next |-> {"hello"}],
     \* conn.write(ServerboundHello {..}).await?
     hello |-> [kind |-> "await", next |-> {"select", "err"}],
     \* tokio::select! { conn.read(), ecs_packets_rx.recv() }
     select |-> [kind |-> "await", next |-> {"event_lock", "queued", "err"}],
     \* conn.write(packet).await?; continue
     queued |-> [kind |-> "await", next |-> {"select", "err"}],
     \* ecs_lock.lock().send_event(LoginPacketEvent {..}); match packet
     event_lock |-> [kind |-> "lock", next |-> {"event"}],
     event |-> [kind |-> "unlock",
                next |-> {"authenticate", "key", "select", "ack", "cookie",
                          "err"}],
     \* conn.authenticate(..).await
     authenticate |-> [kind |-> "await", next |-> {"key", "refresh", "err"}],
     \* account.refresh().await?
     refresh |-> [kind |-> "await", next |-> {"authenticate", "err"}],
     \* conn.write(ServerboundKey {..}).await?
     key |-> [kind |-> "await", next |-> {"select", "err"}],
     \* conn.write(ServerboundLoginAcknowledged {}).await?; break
     ack |-> [kind |-> "await", next |-> {"remove_lock", "err"}],
     \* conn.write(ServerboundCookieResponse {..}).await?
     cookie |-> [kind |-> "await", next |-> {"select", "err"}],
     \* ecs_lock.lock().entity_mut(entity).remove::<..>()..; Ok((conn, profile))
     remove_lock |-> [kind |-> "lock", next |-> {"remove"}],
     remove |-> [kind |-> "unlock", next |-> {"bundle_lock"}],
     \* start_client: let mut ecs = ecs_lock.lock(); ..; Ok(client)
     bundle_lock |-> [kind |-> "lock", next |-> {"bundle"}],
     bundle |-> [kind |-> "unlock", next |-> {"ok"}],
     ok |-> [kind |-> "return", next |-> {}],
     err |-> [kind |-> "return", next |-> {}]]

\* the mutant: a new entity is spawned for every call
SelectEntity_AlwaysSpawn(world, uuid) ==
    LET entity == Len(world.entities) + 1
    IN  [entity |-> entity,
         world |-> [entity_uuid_index |->
                       [world.entity_uuid_index EXCEPT ![uuid] = Some(entity)],
                    entities |->
                       Append(world.entities,
                              [account |-> Some(uuid), components |-> {}])]]

\* let entity = { .. if let Some(entity) = entity_uuid_index.get(&uuid)
\* { entity } else { ecs.spawn_empty().id(), entity_uuid_index.insert(..) };
\* ecs.entity_mut(entity).insert(account.to_owned()); entity }
SelectEntity(world, uuid) ==
    LET found == world.entity_uuid_index[uuid]
        entity == IF found # None THEN found[1] ELSE Len(world.entities) + 1
        spawned == IF found # None
                   THEN world.entities
                   ELSE Append(world.entities,
                               [account |-> None, components |-> {}])
    IN  [entity |-> entity,
         world |-> [entity_uuid_index |->
                       [world.entity_uuid_index EXCEPT ![uuid] = Some(entity)],
                    entities |->
                       [spawned EXCEPT ![entity].account = Some(uuid)]]]

\* what the holder of the guard does to its entity before the guard drops:
\* handshake's insert((LoginSendPacketQueue, IgnoreQueryIds, InLoginState)),
\* its remove::<..>() of the three, and start_client's
\* insert((LocalPlayerBundle, InConfigState, LocalEntity)); send_event touches
\* no component
EntityMut(world, entity, position) ==
    LET had == world.entities[entity].components
        has == CASE position = "login_insert" -> had \cup LoginComponents
                 [] position = "remove" -> had \ LoginComponents
                 [] position = "bundle" ->
                       had \cup {"LocalPlayerBundle", "InConfigState",
                                 "LocalEntity"}
                 [] OTHER -> had
    IN  [world EXCEPT !.entities[entity].components = has]

\* ecs_lock.lock(): the call waits until the mutex is free; a call that
\* starts is given its account
Lock ==
    /\ ecs_lock = None
    /\ \E t \in JoinTasks :
          /\ JoinSteps[joinPc[t]].kind = "lock"
          /\ ecs_lock' = Some(t)
          /\ \E to \in JoinSteps[joinPc[t]].next :
                joinPc' = [joinPc EXCEPT ![t] = to]
          /\ IF joinPc[t] = "start"
             THEN \E uuid \in AccountUuids :
                     joinCall' = [joinCall EXCEPT ![t].uuid = Some(uuid)]
             ELSE UNCHANGED joinCall
    /\ UNCHANGED ecs
    /\ UNCHANGED notJoin

\* the guard is dropped, at the end of its statement or of its block, after
\* what was done to the world under it
Unlock ==
    /\ \E t \in JoinTasks :
          /\ JoinSteps[joinPc[t]].kind = "unlock"
          /\ ecs_lock = Some(t)
          /\ ecs_lock' = None
          /\ \E to \in JoinSteps[joinPc[t]].next :
                joinPc' = [joinPc EXCEPT ![t] = to]
          /\ IF joinPc[t] = "entity"
             THEN LET selected == SelectEntity(ecs, joinCall[t].uuid[1])
                  IN  /\ ecs' = selected.world
                      /\ joinCall' =
                            [joinCall EXCEPT
                               ![t].entity = Some(selected.entity)]
             ELSE /\ ecs' = EntityMut(ecs, joinCall[t].entity[1], joinPc[t])
                  /\ UNCHANGED joinCall
    /\ UNCHANGED notJoin

\* the future awaited is ready: the call goes on, or returns its error
Resume ==
    /\ \E t \in JoinTasks :
          /\ JoinSteps[joinPc[t]].kind = "await"
          /\ \E to \in JoinSteps[joinPc[t]].next :
                joinPc' = [joinPc EXCEPT ![t] = to]
    /\ UNCHANGED << ecs_lock, joinCall, ecs >>
    /\ UNCHANGED notJoin

\* run_schedule_loop: let mut ecs = ecs.lock();
ScheduleLock ==
    /\ ecs_lock = None
    /\ ecs_lock' = Some("schedule")
    /\ UNCHANGED << joinPc, joinCall, ecs >>
    /\ UNCHANGED notJoin

\* run_schedule_loop: the end of the loop body drops the guard
ScheduleUnlock ==
    /\ ecs_lock = Some("schedule")
    /\ ecs_lock' = None
    /\ UNCHANGED << joinPc, joinCall, ecs >>
    /\ UNCHANGED notJoin

JoinNext == Lock \/ Unlock \/ Resume \/ ScheduleLock \/ ScheduleUnlock

SpecJoin == RunnerInit /\ [][JoinNext]_vars

\* where start_client and handshake are suspended at an await
AwaitPositions ==
    {"connect", "intention", "hello", "select", "queued", "authenticate",
     "refresh", "key", "ack", "cookie"}

\* C29: a start_client call suspended at an await (connect, socket read or
\* write, authenticate, refresh) does not hold the ECS mutex, nor does one
\* that has returned; so while every join waits on the network the mutex is
\* free or held by the schedule loop.
C29_NoLockAcrossAwait ==
    /\ \A t \in JoinTasks :
          joinPc[t] \in AwaitPositions \cup {"ok", "err"} => ecs_lock # Some(t)
    /\ (\A t \in JoinTasks : joinPc[t] \in AwaitPositions) =>
          ecs_lock \in {None, Some("schedule")}

\* the schedule loop holds the mutex while one join awaits authenticate and
\* the other a packet
C29_Witness ==
    /\ joinPc["join1"] = "authenticate"
    /\ joinPc["join2"] = "select"
    /\ ecs_lock = Some("schedule")

\* C35: once a start_client call has selected its entity, the EntityUuidIndex
\* maps the uuid of its account to that entity and the entity carries the
\* Account; calls with the same uuid have the same entity, however many there
\* are and however they interleave; and an entity is spawned only by a call
\* that finds no entry for its uuid in the index.
C35_OneEntityPerUuid ==
    /\ [](/\ \A t \in JoinTasks :
               joinCall[t].entity # << >> =>
                  /\ ecs.entity_uuid_index[joinCall[t].uuid[1]] =
                        joinCall[t].entity
                  /\ joinCall[t].entity[1] \in 1..Len(ecs.entities)
                  /\ ecs.entities[joinCall[t].entity[1]].account =
                        joinCall[t].uuid
           /\ \A t1, t2 \in JoinTasks :
                 (/\ joinCall[t1].entity # << >>
                  /\ joinCall[t2].entity # << >>
                  /\ joinCall[t1].uuid = joinCall[t2].uuid) =>
                    joinCall[t1].entity = joinCall[t2].entity)
    /\ [][Len(ecs.entities') # Len(ecs.entities) =>
             \E t \in JoinTasks :
                /\ joinPc[t] = "entity"
                /\ joinPc'[t] # "entity"
                /\ ecs.entity_uuid_index[joinCall[t].uuid[1]] = << >>
                /\ Len(ecs.entities') = Len(ecs.entities) + 1]_vars

\* the second call of an account reuses the entity the first call spawned,
\* after the first call has returned its client
C35_Witness ==
    /\ joinPc["join1"] = "ok"
    /\ joinPc["join2"] = "connect"
    /\ joinCall["join1"] = [uuid |-> << "uuid1" >>, entity |-> << 1 >>]
    /\ joinCall["join2"] = [uuid |-> << "uuid1" >>, entity |-> << 1 >>]
    /\ Len(ecs.entities) = 1

\* C38 as stated: no entity carries InLoginState together with InConfigState
\* or InGameState, at any point of start_client and handshake.
C38_LoginStateExclusive ==
    \A e \in 1..Len(ecs.entities) :
       "InLoginState" \in ecs.entities[e].components =>
          ecs.entities[e].components \cap {"InConfigState", "InGameState"}
             = {}

(***************************************************************************)
(* Part 9: the locks of the command nodes.  Each node is an                *)
(* Arc<parking_lot::RwLock<CommandNode>>.  A writer that asks for the lock *)
(* marks it and then waits for the readers to leave; read() waits while    *)
(* the lock is marked, also in a thread that already holds a read guard of *)
(* it (only read_recursive() does not).                                    *)
(***************************************************************************)
\* for child in node.read().get_relevant_nodes(..): the guard lives as long
\* as the loop
ReadLoop ==
    /\ parseAt.kind = "read_loop"
    /\ writerBit[parseAt.node] = None
    /\ guards' = Append(guards, [node |-> parseAt.node, kind |-> "loop",
                                 todo |-> Tree[parseAt.node].children,
                                 left |-> parseAt.left])
    /\ parseAt' = [kind |-> "loop", node |-> "", left |-> parseAt.left]
    /\ UNCHANGED << writerBit, writers >>
    /\ UNCHANGED notLock

\* the loop goes to the next relevant child, or is over and parse_nodes
\* returns
NextChild ==
    /\ parseAt.kind = "loop"
    /\ LET top == guards[Len(guards)]
       IN  \/ /\ parseAt' = [parseAt EXCEPT !.kind = "returning"]
              /\ UNCHANGED guards
           \/ \E child \in top.todo :
                 /\ guards' = [guards EXCEPT
                                 ![Len(guards)].todo = top.todo \ {child}]
                 /\ parseAt' = [kind |-> "read_child", node |-> child,
                                left |-> top.left]
    /\ UNCHANGED << writerBit, writers >>
    /\ UNCHANGED notLock

\* child.read().can_use(..), child.read().parse(..), child.read().command,
\* child.read().redirect.is_none(): guards dropped with their statement; the
\* child fails or is a potential, or input remains behind it
ReadChild ==
    /\ parseAt.kind = "read_child"
    /\ writerBit[parseAt.node] = None
    /\ \/ parseAt' = [kind |-> "loop", node |-> "", left |-> parseAt.left]
       \/ /\ parseAt.left >= 2
          /\ parseAt' = [parseAt EXCEPT !.kind = "read_match"]
    /\ UNCHANGED << guards, writerBit, writers >>
    /\ UNCHANGED notLock

\* match &child.read().redirect { Some(redirect) => parse_nodes(redirect, ..),
\* _ => parse_nodes(&child, ..) }: the guard lives as long as the match
ReadMatch ==
    /\ parseAt.kind = "read_match"
    /\ writerBit[parseAt.node] = None
    /\ guards' = Append(guards, [node |-> parseAt.node, kind |-> "match",
                                 todo |-> {}, left |-> parseAt.left])
    /\ parseAt' =
          [kind |-> "read_loop",
           node |-> IF Tree[parseAt.node].redirect # None
                    THEN Tree[parseAt.node].redirect[1]
                    ELSE parseAt.node,
           left |-> parseAt.left - 1]
    /\ UNCHANGED << writerBit, writers >>
    /\ UNCHANGED notLock

\* parse_nodes returns: the guard of its loop is dropped, then the guard of
\* the match that called it; after a redirect the caller returns as well,
\* otherwise its loop goes on
ReturnParse ==
    /\ parseAt.kind = "returning"
    /\ IF Len(guards) = 1
       THEN /\ guards' = << >>
            /\ parseAt' = [kind |-> "done", node |-> "", left |-> 0]
       ELSE LET match == guards[Len(guards) - 1]
            IN  /\ guards' = SubSeq(guards, 1, Len(guards) - 2)
                /\ parseAt' =
                      [kind |-> IF Tree[match.node].redirect # None
                                THEN "returning"
                                ELSE "loop",
                       node |-> "",
                       left |-> guards[Len(guards) - 2].left]
    /\ UNCHANGED << writerBit, writers >>
    /\ UNCHANGED notLock

\* node.write() in another thread, on the root or on a node that register
\* returned: the lock is marked
WriteRequest ==
    /\ \E w \in Writers, n \in DOMAIN Tree :
          /\ writers[w].pc = "idle"
          /\ writerBit[n] = None
          /\ writerBit' = [writerBit EXCEPT ![n] = Some(w)]
          /\ writers' = [writers EXCEPT ![w] = [pc |-> "waiting", node |-> n]]
    /\ UNCHANGED << parseAt, guards >>
    /\ UNCHANGED notLock

\* the last reader has left: the writer has the lock
WriteAcquire ==
    /\ \E w \in Writers :
          /\ writers[w].pc = "waiting"
          /\ \A i \in 1..Len(guards) : guards[i].node # writers[w].node
          /\ writers' = [writers EXCEPT ![w].pc = "writing"]
    /\ UNCHANGED << parseAt, guards, writerBit >>
    /\ UNCHANGED notLock

\* the write guard is dropped
WriteRelease ==
    /\ \E w \in Writers :
          /\ writers[w].pc = "writing"
          /\ writerBit' = [writerBit EXCEPT ![writers[w].node] = None]
          /\ writers' = [writers EXCEPT ![w] = [pc |-> "idle", node |-> ""]]
    /\ UNCHANGED << parseAt, guards >>
    /\ UNCHANGED notLock

LockNext ==
    \/ ReadLoop
    \/ NextChild
    \/ ReadChild
    \/ ReadMatch
    \/ ReturnParse
    \/ WriteRequest
    \/ WriteAcquire
    \/ WriteRelease

SpecLock == RunnerInit /\ [][LockNext]_vars

\* C37 as stated, in the form a finite run refutes: the parse never waits for
\* the read lock of a node of which it holds a read guard while a writer of
\* that node waits for the readers to leave; from such a state neither thread
\* ever goes on.
C37_ParseNeverBlocksBehindWriter ==
    \A n \in {"root", "a", "b", "c"} :
       ~ /\ parseAt.kind \in {"read_loop", "read_child", "read_match"}
         /\ parseAt.node = n
         /\ writerBit[n] # << >>
         /\ \E i \in 1..Len(guards) : guards[i].node = n

=============================================================================
